---- MODULE Spec2Model ----
(***************************************************************************)
(* Outbound attempt scheduler of scam_call_app (twilio_outbound_call.py):  *)
(* the per-destination attempt ledger, the active-window policy, the       *)
(* interval schedule, the voice dialer loop, the manual call request, the  *)
(* provider status callbacks and the SMS sender.                           *)
(*                                                                         *)
(* Time is the integer part of time.time().  Ledger entries are stored by  *)
(* the code as floats, but every read of an entry either compares it with  *)
(* an integer by >= or truncates it by int(), so only the integer part of  *)
(* an entry is ever observed; entries are modelled by that integer part.   *)
(***************************************************************************)
EXTENDS Integers, Sequences, FiniteSets, TLC

VARIABLES
    clock,               \* int(time.time())
    runtime,             \* _runtime (RuntimeConfig), the fields the scheduler reads
    sms_runtime,         \* _sms_runtime (SMSConfig)
    dest_attempts,       \* _dest_attempts: destination -> list of timestamps
    SMS_DEST_ATTEMPTS,   \* _SMS_DEST_ATTEMPTS
    ret,                 \* the value returned by the last call of a pure helper
    CURRENT_CALL_SID,    \* _CURRENT_CALL_SID, NoSid for None
    PENDING_UNTIL_TS,    \* _PENDING_UNTIL_TS, NoTs for None
    next_call_epoch_s,   \* _next_call_epoch_s, NoTs for None
    interval_total_seconds, \* _interval_total_seconds, NoTs for None
    manual_call_requested,  \* _manual_call_requested (threading.Event)
    dialer,              \* the dialer thread: where it is in _dialer_loop, its local now
    call_now,            \* a request thread in api_call_now: where it is
    calls,               \* the provider's calls: sid -> "none" | "active" | "done"
    next_sms_epoch_s,    \* _next_sms_epoch_s, NoTs for None
    sms_interval_total_seconds, \* _sms_interval_total_seconds, NoTs for None
    sms_loop,            \* the SMS thread: where it is in _sms_loop, its local now
    send_now,            \* a request thread in api_texts_send_now: where it is
    CALL_META,           \* _CALL_META: sid -> dict of metadata
    TRANSCRIPTS,         \* _TRANSCRIPTS: sid -> list of transcript entries
    HISTORY,             \* HISTORY_DIR: sid -> the payloads written to <sid>.json
    SMS_HISTORY,         \* SMS_HISTORY_DIR: message sid -> the content of <sid>.json
    status_handler,      \* a request thread in status_callback: where it is
    SMS_ONE_SHOT_OPENING, \* _SMS_ONE_SHOT_OPENING, NoOpening for None
    CALL_PARAMS_BY_SID,  \* _CALL_PARAMS_BY_SID: sid -> CallParams
    PENDING_CALL_PARAMS, \* _PENDING_CALL_PARAMS, NoParams for None
    PLACED_CALL_COUNT,   \* _PLACED_CALL_COUNT
    LAST_DIALOG_IDX,     \* _LAST_DIALOG_IDX
    engine,              \* an UltraFastConversationEngine: its settings and _state
    stop_requested,      \* _stop_requested.is_set()
    sms_stop_requested,  \* _sms_stop_requested.is_set()
    lock_holder,         \* each threading.Lock of the module: the thread that holds it
    lock_steps           \* each thread: the lock operations and provider calls it has
                         \* still to make in the function it is running

\* the events that end the loops
stopVars == <<stop_requested, sms_stop_requested>>

\* the locks and what the threads still do with them
lockVars == <<lock_holder, lock_steps>>

\* the threading.Lock objects of twilio_outbound_call
Locks == {"_LAST_DIAL_ERROR_LOCK", "_CURRENT_CALL_LOCK", "_PENDING_LOCK",
          "_PARAMS_LOCK", "_attempts_lock", "_next_call_epoch_s_lock",
          "_TRANSCRIPTS_LOCK", "_CALL_META_LOCK", "_USER_MESSAGES_LOCK",
          "_ONE_SHOT_OPENING_LOCK", "_SMS_ATTEMPTS_LOCK",
          "_SMS_ONE_SHOT_OPENING_LOCK", "_NEXT_SMS_EPOCH_LOCK"}

\* the dialer thread, the SMS thread and a request thread of the web server
Threads == {"dialer", "sms", "request"}

NoThread == "none"

\* the state that _PARAMS_LOCK guards
paramVars == <<CALL_PARAMS_BY_SID, PENDING_CALL_PARAMS, PLACED_CALL_COUNT,
               LAST_DIALOG_IDX>>

(***************************************************************************)
(* Bounds of the model                                                     *)
(***************************************************************************)
MaxRecords == 3          \* ledger entries held at once in SpecLedger
MaxCalls == 2            \* calls the provider accepts in one behaviour of Spec
MaxSendFailures == 1     \* failed sends recorded in one behaviour of Spec
MaxTranscript == 2       \* live transcript entries in SpecLifecycle
MaxPersists == 2         \* history files written in SpecLifecycle
MaxLifeCalls == 1        \* calls placed in SpecLifecycle

(***************************************************************************)
(* Values                                                                  *)
(***************************************************************************)
None == [op |-> "none"]
NoSid == 0
\* {}: a dict is a function on its keys
EmptyDict == << >>
NoTs == -1

Dests == {"X", "Y"}

\* The instants the clock of SpecLedger visits: the spec's scenario
\* (0, 100, 200, 300) and both edges of the one-hour and 24-hour windows
\* of an entry made at 0.
Instants == {0, 100, 200, 300, 3600, 3601, 86400, 86401}

Max2(a, b) == IF a >= b THEN a ELSE b

Range(s) == {s[i] : i \in DOMAIN s}

\* Python's min() of a non-empty list
SeqMin(s) == CHOOSE m \in Range(s) : \A x \in Range(s) : m <= x

\* Python's max() of a non-empty list
SeqMax(s) == CHOOSE m \in Range(s) : \A x \in Range(s) : m >= x

\* A dict of lists read with .get(key, []) and written with setdefault(key, []):
\* a missing key and an empty list are indistinguishable, so the dict is a
\* function on every destination.
\* _State(): no response yet
NoResponse == [said |-> "", wrapped |-> FALSE]

\* UltraFastConversationEngine(attitude_level, 160, enable_explicit), the level
\* clamped already
NewEngine(level, explicit) ==
    [attitude_level |-> level, enable_explicit |-> explicit,
     state |-> [last_intent |-> "", last_response |-> NoResponse, turn |-> 0]]

\* None of _PENDING_CALL_PARAMS
NoParams == [voice |-> "", dialog_idx |-> -1]

\* None of _SMS_ONE_SHOT_OPENING; an opening that is set is never empty
NoOpening == ""

EmptyLedger == [d \in Dests |-> << >>]

(***************************************************************************)
(* AttemptLedger: _prune_attempts, _note_attempt, _can_attempt and their   *)
(* SMS copies                                                              *)
(***************************************************************************)
\* Mutant of _prune_attempts: the entry made exactly 24 hours ago is dropped
prune_attempts_after_cutoff(attempts, now_ts, to_number) ==
    [attempts EXCEPT ![to_number] =
        SelectSeq(attempts[to_number], LAMBDA t : t > now_ts - 24 * 3600)]

\* _prune_attempts(now_ts, to_number)
prune_attempts(attempts, now_ts, to_number) ==
    [attempts EXCEPT ![to_number] =
        SelectSeq(attempts[to_number], LAMBDA t : t >= now_ts - 24 * 3600)]

note_attempt(attempts, now_ts, to_number) ==
    [attempts EXCEPT ![to_number] = Append(attempts[to_number], now_ts)]

\* Mutants of _can_attempt: the cap compared with > (at the cap still admits);
\* the newest entry used for the wait; the daily cap left out; the oldest
\* entry of the whole list used for the wait; the attempt noted before the
\* caps are tested.
can_attempt_gt(attempts, now_ts, to_number, hourly_max, daily_max) ==
    LET pruned == prune_attempts(attempts, now_ts, to_number)
        lst == pruned[to_number]
        last_hour == SelectSeq(lst, LAMBDA t : t >= now_ts - 3600)
    IN  IF Len(last_hour) > hourly_max
        THEN [allowed |-> FALSE,
              wait |-> Max2(1, (SeqMin(last_hour) + 3600) - now_ts),
              attempts |-> pruned]
        ELSE IF Len(lst) >= daily_max
        THEN [allowed |-> FALSE, wait |-> 3600, attempts |-> pruned]
        ELSE [allowed |-> TRUE, wait |-> 0, attempts |-> pruned]

can_attempt_newest(attempts, now_ts, to_number, hourly_max, daily_max) ==
    LET pruned == prune_attempts(attempts, now_ts, to_number)
        lst == pruned[to_number]
        last_hour == SelectSeq(lst, LAMBDA t : t >= now_ts - 3600)
    IN  IF Len(last_hour) >= hourly_max
        THEN [allowed |-> FALSE,
              wait |-> Max2(1, ((IF last_hour # << >> THEN SeqMax(last_hour)
                                                      ELSE now_ts) + 3600) - now_ts),
              attempts |-> pruned]
        ELSE IF Len(lst) >= daily_max
        THEN [allowed |-> FALSE, wait |-> 3600, attempts |-> pruned]
        ELSE [allowed |-> TRUE, wait |-> 0, attempts |-> pruned]

can_attempt_no_daily(attempts, now_ts, to_number, hourly_max, daily_max) ==
    LET pruned == prune_attempts(attempts, now_ts, to_number)
        lst == pruned[to_number]
        last_hour == SelectSeq(lst, LAMBDA t : t >= now_ts - 3600)
    IN  IF Len(last_hour) >= hourly_max
        THEN [allowed |-> FALSE,
              wait |-> Max2(1, ((IF last_hour # << >> THEN SeqMin(last_hour)
                                                      ELSE now_ts) + 3600) - now_ts),
              attempts |-> pruned]
        ELSE [allowed |-> TRUE, wait |-> 0, attempts |-> pruned]

can_attempt_oldest_overall(attempts, now_ts, to_number, hourly_max, daily_max) ==
    LET pruned == prune_attempts(attempts, now_ts, to_number)
        lst == pruned[to_number]
        last_hour == SelectSeq(lst, LAMBDA t : t >= now_ts - 3600)
    IN  IF Len(last_hour) >= hourly_max
        THEN [allowed |-> FALSE,
              wait |-> Max2(1, ((IF lst # << >> THEN SeqMin(lst)
                                                ELSE now_ts) + 3600) - now_ts),
              attempts |-> pruned]
        ELSE IF Len(lst) >= daily_max
        THEN [allowed |-> FALSE, wait |-> 3600, attempts |-> pruned]
        ELSE [allowed |-> TRUE, wait |-> 0, attempts |-> pruned]

\* _can_attempt(now_ts, to_number) -> (allowed, wait); the pruned ledger is
\* its side effect.
can_attempt_noting(attempts, now_ts, to_number, hourly_max, daily_max) ==
    LET noted == note_attempt(attempts, now_ts, to_number)
        pruned == prune_attempts(noted, now_ts, to_number)
        lst == pruned[to_number]
        last_hour == SelectSeq(lst, LAMBDA t : t >= now_ts - 3600)
    IN  IF Len(last_hour) > hourly_max
        THEN [allowed |-> FALSE,
              wait |-> Max2(1, (SeqMin(last_hour) + 3600) - now_ts),
              attempts |-> pruned]
        ELSE IF Len(lst) > daily_max
        THEN [allowed |-> FALSE, wait |-> 3600, attempts |-> pruned]
        ELSE [allowed |-> TRUE, wait |-> 0, attempts |-> pruned]

can_attempt(attempts, now_ts, to_number, hourly_max, daily_max) ==
    LET pruned == prune_attempts(attempts, now_ts, to_number)
        lst == pruned[to_number]
        last_hour == SelectSeq(lst, LAMBDA t : t >= now_ts - 3600)
    IN  IF Len(last_hour) >= hourly_max
        THEN [allowed |-> FALSE,
              wait |-> Max2(1, ((IF last_hour # << >> THEN SeqMin(last_hour)
                                                      ELSE now_ts) + 3600) - now_ts),
              attempts |-> pruned]
        ELSE IF Len(lst) >= daily_max
        THEN [allowed |-> FALSE, wait |-> 3600, attempts |-> pruned]
        ELSE [allowed |-> TRUE, wait |-> 0, attempts |-> pruned]

sms_prune_attempts(attempts, now_ts, to_number) ==
    [attempts EXCEPT ![to_number] =
        SelectSeq(attempts[to_number], LAMBDA t : t >= now_ts - 24 * 3600)]

sms_note_attempt(attempts, now_ts, to_number) ==
    [attempts EXCEPT ![to_number] = Append(attempts[to_number], now_ts)]

sms_can_attempt(attempts, now_ts, to_number, hourly_max, daily_max) ==
    LET pruned == sms_prune_attempts(attempts, now_ts, to_number)
        lst == pruned[to_number]
        last_hour == SelectSeq(lst, LAMBDA t : t >= now_ts - 3600)
    IN  IF Len(last_hour) >= hourly_max
        THEN [allowed |-> FALSE,
              wait |-> Max2(1, ((IF last_hour # << >> THEN SeqMin(last_hour)
                                                      ELSE now_ts) + 3600) - now_ts),
              attempts |-> pruned]
        ELSE IF Len(lst) >= daily_max
        THEN [allowed |-> FALSE, wait |-> 3600, attempts |-> pruned]
        ELSE [allowed |-> TRUE, wait |-> 0, attempts |-> pruned]

(***************************************************************************)
(* ActiveWindowPolicy: _within_active_window and _sms_within_active_window *)
(***************************************************************************)
\* active_hours_local is a string "HH:MM-HH:MM".  kind "ok" stands for a string
\* that split("-", 1), split(":") and int() accept, with the four integers
\* read; kind "malformed" for one on which any of them raises; kind "empty"
\* for the empty string.
Hours(sh, sm, eh, em) == [kind |-> "ok", sh |-> sh, sm |-> sm, eh |-> eh, em |-> em]
MalformedHours == [kind |-> "malformed", sh |-> 0, sm |-> 0, eh |-> 0, em |-> 0]
EmptyHours == [kind |-> "empty", sh |-> 0, sm |-> 0, eh |-> 0, em |-> 0]
DefaultHours == Hours(9, 0, 18, 0)

wd_map == <<"Mon", "Tue", "Wed", "Thu", "Fri", "Sat", "Sun">>

\* start_str, end_str = s.split("-", 1); sh, sm = ...; except: 9, 0, 18, 0
parse_hours(s) == IF s.kind = "ok" THEN s ELSE DefaultHours

\* x or y, for strings
or_hours(x, y) == IF x.kind = "empty" THEN y ELSE x

\* Mutants of the window test: end points excluded; days never consulted;
\* the wrapped window tested with "and".
window_test_strict(start_m, end_m, t_minutes) ==
    IF start_m <= end_m
    THEN start_m < t_minutes /\ t_minutes < end_m
    ELSE t_minutes > start_m \/ t_minutes < end_m

window_test_and(start_m, end_m, t_minutes) ==
    IF start_m <= end_m
    THEN start_m <= t_minutes /\ t_minutes <= end_m
    ELSE t_minutes >= start_m /\ t_minutes <= end_m

window_test(start_m, end_m, t_minutes) ==
    IF start_m <= end_m
    THEN start_m <= t_minutes /\ t_minutes <= end_m
    ELSE t_minutes >= start_m \/ t_minutes <= end_m

day_allowed_any(days, today) == TRUE

\* "if days and today not in days: return False", negated
day_allowed(days, today) == ~(days # {} /\ today \notin days)

\* now_local is [weekday |-> 0..6, hour |-> 0..23, minute |-> 0..59]
within_active_window(rt, now_local) ==
    LET h == parse_hours(or_hours(rt.active_hours_local, DefaultHours))
        today == wd_map[now_local.weekday + 1]
        t_minutes == now_local.hour * 60 + now_local.minute
        start_m == h.sh * 60 + h.sm
        end_m == h.eh * 60 + h.em
    IN  IF ~day_allowed(rt.active_days, today)
        THEN FALSE
        ELSE window_test(start_m, end_m, t_minutes)

\* days = _sms_runtime.active_days or _runtime.active_days
sms_days(sms, rt) == IF sms.active_days # {} THEN sms.active_days ELSE rt.active_days

sms_within_active_window(sms, rt, now_local) ==
    LET hours == or_hours(sms.active_hours_local,
                          or_hours(rt.active_hours_local, DefaultHours))
        h == parse_hours(hours)
        today == wd_map[now_local.weekday + 1]
        days == sms_days(sms, rt)
        t_minutes == now_local.hour * 60 + now_local.minute
        start_m == h.sh * 60 + h.sm
        end_m == h.eh * 60 + h.em
    IN  IF ~day_allowed(days, today)
        THEN FALSE
        ELSE window_test(start_m, end_m, t_minutes)

(***************************************************************************)
(* Configuration                                                           *)
(***************************************************************************)
Weekdays == {"Mon", "Tue", "Wed", "Thu", "Fri"}

\* RuntimeConfig as _load_runtime_from_env leaves it with no environment set,
\* but for a destination, which the scheduler needs.
\* twilio_client stands for _ensure_twilio_client() returning a client,
\* direct_dial for the environment's DIRECT_DIAL_ON_TRIGGER.
DefaultRuntime ==
    [to_number |-> "X",
     from_number |-> "F",
     public_base_url |-> "U",
     twilio_client |-> TRUE,
     direct_dial |-> TRUE,
     active_hours_local |-> DefaultHours,
     active_days |-> Weekdays,
     min_interval_seconds |-> 120,
     max_interval_seconds |-> 420,
     hourly_max_attempts |-> 3,
     daily_max_attempts |-> 20]

DefaultSmsRuntime ==
    [enabled |-> FALSE,
     to_number |-> "X",
     from_number |-> "",
     min_interval_seconds |-> 300,
     max_interval_seconds |-> 900,
     active_hours_local |-> EmptyHours,
     active_days |-> {},
     hourly_max_attempts |-> 3,
     daily_max_attempts |-> 20,
     template |-> ""]

\* (hourly_max_attempts, daily_max_attempts) as the loaders can leave them:
\* hourly = max(1, .), daily = max(hourly, .)
LedgerCaps == {<<1, 2>>, <<2, 2>>, <<3, 3>>}

WithCaps(rt, caps) ==
    [rt EXCEPT !.hourly_max_attempts = caps[1], !.daily_max_attempts = caps[2]]

(***************************************************************************)
(* SpecLedger: the ledger functions applied to the ledgers that record     *)
(* calls at a non-decreasing clock can build.  The two ledgers share no    *)
(* state; a behaviour fills one of them at a time.                         *)
(***************************************************************************)
voiceVars == <<CURRENT_CALL_SID, PENDING_UNTIL_TS, next_call_epoch_s,
               interval_total_seconds, manual_call_requested, dialer, call_now, calls>>

smsVars == <<next_sms_epoch_s, sms_interval_total_seconds, sms_loop, send_now>>

lifeVars == <<CALL_META, TRANSCRIPTS, HISTORY, SMS_HISTORY, status_handler>>

vars == <<clock, runtime, sms_runtime, lockVars, stopVars, paramVars, engine, SMS_ONE_SHOT_OPENING, dest_attempts, SMS_DEST_ATTEMPTS, ret,
          voiceVars, smsVars, lifeVars>>

\* the scheduler as the module leaves it at import, before any thread runs
ThreadsIdle ==
    /\ CURRENT_CALL_SID = NoSid
    /\ PENDING_UNTIL_TS = NoTs
    /\ next_call_epoch_s = NoTs
    /\ interval_total_seconds = NoTs
    /\ manual_call_requested = FALSE
    /\ dialer = [pc |-> "top", now |-> 0]
    /\ call_now = [pc |-> "idle"]
    /\ calls = [s \in 1..MaxCalls |-> "none"]
    /\ next_sms_epoch_s = NoTs
    /\ sms_interval_total_seconds = NoTs
    /\ sms_loop = [pc |-> "top", now |-> 0]
    /\ send_now = [pc |-> "idle"]
    /\ CALL_META = EmptyDict
    /\ TRANSCRIPTS = EmptyDict
    /\ HISTORY = EmptyDict
    /\ SMS_HISTORY = EmptyDict
    /\ status_handler = [pc |-> "idle"]
    /\ SMS_ONE_SHOT_OPENING = NoOpening
    /\ CALL_PARAMS_BY_SID = EmptyDict
    /\ PENDING_CALL_PARAMS = NoParams
    /\ PLACED_CALL_COUNT = 0
    /\ LAST_DIALOG_IDX = -1
    /\ stop_requested = FALSE
    /\ sms_stop_requested = FALSE
    /\ lock_holder = [l \in Locks |-> NoThread]
    /\ lock_steps = [t \in Threads |-> << >>]

\* and the engine with the default settings of run_with_db_engine
SchedulersIdle == ThreadsIdle /\ engine = NewEngine(2, FALSE)

TotalLen(attempts) ==
    LET RECURSIVE Sum(_)
        Sum(S) == IF S = {} THEN 0
                  ELSE LET d == CHOOSE x \in S : TRUE
                       IN  Len(attempts[d]) + Sum(S \ {d})
    IN  Sum(Dests)

InitLedger ==
    /\ clock = 0
    /\ \E c \in LedgerCaps :
          /\ runtime = WithCaps(DefaultRuntime, c)
          /\ sms_runtime = WithCaps(DefaultSmsRuntime, c)
    /\ dest_attempts = EmptyLedger
    /\ SMS_DEST_ATTEMPTS = EmptyLedger
    /\ ret = None
    /\ SchedulersIdle

\* time passes, to the next instant
LAdvance ==
    /\ \E t \in Instants :
          /\ t > clock
          /\ \A u \in Instants : u > clock => t <= u
          /\ clock' = t
    /\ ret' = None
    /\ UNCHANGED <<runtime, sms_runtime, lockVars, stopVars, paramVars, engine, SMS_ONE_SHOT_OPENING, dest_attempts, SMS_DEST_ATTEMPTS, voiceVars, smsVars, lifeVars>>

\* _note_attempt(time.time(), to_n)
LNoteAttempt(d) ==
    /\ TotalLen(SMS_DEST_ATTEMPTS) = 0
    /\ TotalLen(dest_attempts) < MaxRecords
    /\ dest_attempts' = note_attempt(dest_attempts, clock, d)
    /\ ret' = None
    /\ UNCHANGED <<clock, runtime, sms_runtime, lockVars, stopVars, paramVars, engine, SMS_ONE_SHOT_OPENING, SMS_DEST_ATTEMPTS, voiceVars, smsVars, lifeVars>>

\* _sms_note_attempt(time.time(), to_n)
LSmsNoteAttempt(d) ==
    /\ TotalLen(dest_attempts) = 0
    /\ TotalLen(SMS_DEST_ATTEMPTS) < MaxRecords
    /\ SMS_DEST_ATTEMPTS' = sms_note_attempt(SMS_DEST_ATTEMPTS, clock, d)
    /\ ret' = None
    /\ UNCHANGED <<clock, runtime, sms_runtime, lockVars, stopVars, paramVars, engine, SMS_ONE_SHOT_OPENING, dest_attempts, voiceVars, smsVars, lifeVars>>

\* _can_attempt(now, to_number), now = int(time.time()) read now or, by a
\* caller whose tick began earlier, at an earlier instant
LCanAttempt(d, now_ts) ==
    LET r == can_attempt(dest_attempts, now_ts, d,
                         runtime.hourly_max_attempts, runtime.daily_max_attempts)
    IN  /\ dest_attempts' = r.attempts
        /\ ret' = [op |-> "can_attempt", to_number |-> d, now_ts |-> now_ts,
                   before |-> dest_attempts[d],
                   hourly_max |-> runtime.hourly_max_attempts,
                   daily_max |-> runtime.daily_max_attempts,
                   allowed |-> r.allowed, wait |-> r.wait]
        /\ UNCHANGED <<clock, runtime, sms_runtime, lockVars, stopVars, paramVars, engine, SMS_ONE_SHOT_OPENING, SMS_DEST_ATTEMPTS, voiceVars, smsVars, lifeVars>>

LSmsCanAttempt(d, now_ts) ==
    LET r == sms_can_attempt(SMS_DEST_ATTEMPTS, now_ts, d,
                             sms_runtime.hourly_max_attempts,
                             sms_runtime.daily_max_attempts)
    IN  /\ SMS_DEST_ATTEMPTS' = r.attempts
        /\ ret' = [op |-> "sms_can_attempt", to_number |-> d, now_ts |-> now_ts,
                   before |-> SMS_DEST_ATTEMPTS[d],
                   hourly_max |-> sms_runtime.hourly_max_attempts,
                   daily_max |-> sms_runtime.daily_max_attempts,
                   allowed |-> r.allowed, wait |-> r.wait]
        /\ UNCHANGED <<clock, runtime, sms_runtime, lockVars, stopVars, paramVars, engine, SMS_ONE_SHOT_OPENING, dest_attempts, voiceVars, smsVars, lifeVars>>

\* the values of now a caller can hold at this clock
NowValues ==
    {t \in Instants : t <= clock /\ Cardinality({u \in Instants : t < u /\ u <= clock}) <= 1}

NextLedger ==
    \/ LAdvance
    \/ \E d \in Dests : LNoteAttempt(d)
    \/ \E d \in Dests : LSmsNoteAttempt(d)
    \/ \E d \in Dests, n \in NowValues : LCanAttempt(d, n)
    \/ \E d \in Dests, n \in NowValues : LSmsCanAttempt(d, n)

SpecLedger == InitLedger /\ [][NextLedger]_vars

(***************************************************************************)
(* Claims about the ledger (SpecLedger)                                    *)
(***************************************************************************)
IsCan == ret.op \in {"can_attempt", "sms_can_attempt"}

\* how many entries of lst are at or after cutoff
CountSince(lst, cutoff) == Cardinality({i \in DOMAIN lst : lst[i] >= cutoff})

\* the oldest entry of lst at or after cutoff
OldestSince(lst, cutoff) ==
    CHOOSE m \in {lst[i] : i \in {j \in DOMAIN lst : lst[j] >= cutoff}} :
        \A i \in DOMAIN lst : lst[i] >= cutoff => m <= lst[i]

HourlyDenied ==
    /\ IsCan
    /\ CountSince(ret.before, ret.now_ts - 3600) >= ret.hourly_max

\* C3: can_attempt(d, now) returns allowed = false whenever at least hourly_max
\* recorded timestamps t of d satisfy now - 3600 <= t; exactly at the cap
\* counts as over the cap.
C3_DeniedAtHourlyCap == HourlyDenied => ret.allowed = FALSE

\* exactly at the cap, with one of the counted entries exactly 3600 s old
C3_Witness ==
    /\ HourlyDenied
    /\ CountSince(ret.before, ret.now_ts - 3600) = ret.hourly_max
    /\ \E i \in DOMAIN ret.before : ret.before[i] = ret.now_ts - 3600
    /\ ret.allowed = FALSE

\* C4 as claimed: on an hourly denial retry_after_seconds is
\* (oldest + 3600) - now, oldest being the oldest entry in the trailing hour.
C4_WaitIsAgeOut_Original ==
    HourlyDenied =>
        ret.wait = (OldestSince(ret.before, ret.now_ts - 3600) + 3600) - ret.now_ts

\* C4 amended: on an hourly denial retry_after_seconds is
\* max(1, (oldest + 3600) - now): the value claimed, but never below 1.
C4_WaitIsAgeOut ==
    HourlyDenied =>
        ret.wait = Max2(1, (OldestSince(ret.before, ret.now_ts - 3600) + 3600)
                              - ret.now_ts)

\* an hourly denial whose oldest counted entry is not the oldest entry held
C4_Witness ==
    /\ HourlyDenied
    /\ ret.wait > 1
    /\ \E i \in DOMAIN ret.before : ret.before[i] < ret.now_ts - 3600

C5_Scenario ==
    /\ ret.op = "can_attempt"
    /\ ret.to_number = "X"
    /\ ret.hourly_max = 3
    /\ ret.before = <<0, 100, 200>>
    /\ ret.now_ts = 300

\* C5 as claimed: hourly_max = 3, records for X at 0, 100 and 200:
\* can_attempt(X, 300) is denied with a retry_after of about 3500 s.
C5_ScenarioWait_Original ==
    C5_Scenario => ret.allowed = FALSE /\ ret.wait >= 3400 /\ ret.wait <= 3600

\* C5 amended: in that scenario can_attempt(X, 300) is denied with a
\* retry_after of 3300 s, which is (0 + 3600) - 300.
C5_ScenarioWait ==
    C5_Scenario => ret.allowed = FALSE /\ ret.wait = 3300

C5_Witness == C5_Scenario /\ ret.allowed = FALSE

\* C6: with fewer than hourly_max entries in the trailing hour, can_attempt
\* returns (false, 3600) when at least daily_max entries lie in the trailing
\* 24 hours and (true, 0) when fewer do.
C6_DailyCap ==
    IsCan =>
        LET h == CountSince(ret.before, ret.now_ts - 3600)
            d == CountSince(ret.before, ret.now_ts - 24 * 3600)
        IN  /\ (h < ret.hourly_max /\ d >= ret.daily_max)
                    => (ret.allowed = FALSE /\ ret.wait = 3600)
            /\ (h < ret.hourly_max /\ d < ret.daily_max)
                    => (ret.allowed = TRUE /\ ret.wait = 0)

\* a denial by the daily cap alone
C6_Witness ==
    /\ IsCan
    /\ CountSince(ret.before, ret.now_ts - 3600) < ret.hourly_max
    /\ CountSince(ret.before, ret.now_ts - 24 * 3600) >= ret.daily_max
    /\ ret.allowed = FALSE
    /\ ret.wait = 3600

(***************************************************************************)
(* SpecWindow: the window functions applied, for one time of day and each  *)
(* of the seven weekdays, under the configurations the loaders can leave   *)
(***************************************************************************)
VoiceHoursChoices ==
    {Hours(22, 0, 6, 0), Hours(9, 0, 18, 0), Hours(12, 30, 12, 30),
     MalformedHours, EmptyHours}

SmsHoursChoices == {EmptyHours, Hours(22, 0, 6, 0), Hours(6, 0, 12, 30)}

VoiceDaysChoices == {{}, Weekdays, {"Sat", "Sun"}}

SmsDaysChoices == {{}, {"Sat"}}

ProbeHours == {0, 5, 6, 9, 12, 18, 21, 22, 23}

ProbeMinutes == {0, 1, 30, 59}

InitWindow ==
    /\ clock = 0
    /\ \E h \in VoiceHoursChoices, d \in VoiceDaysChoices :
          runtime = [DefaultRuntime EXCEPT !.active_hours_local = h,
                                           !.active_days = d]
    /\ \E h \in SmsHoursChoices, d \in SmsDaysChoices :
          sms_runtime = [DefaultSmsRuntime EXCEPT !.active_hours_local = h,
                                                  !.active_days = d]
    /\ dest_attempts = EmptyLedger
    /\ SMS_DEST_ATTEMPTS = EmptyLedger
    /\ ret = None
    /\ SchedulersIdle

\* _within_active_window(now_local) at hour:minute of each weekday
WWithinActiveWindow(hour, minute) ==
    /\ ret' = [op |-> "within_active_window", hour |-> hour, minute |-> minute,
               open |-> [wd \in 0..6 |->
                   within_active_window(runtime,
                       [weekday |-> wd, hour |-> hour, minute |-> minute])]]
    /\ UNCHANGED <<clock, runtime, sms_runtime, lockVars, stopVars, paramVars, engine, SMS_ONE_SHOT_OPENING, dest_attempts, SMS_DEST_ATTEMPTS, voiceVars, smsVars, lifeVars>>

\* _sms_within_active_window(now_local) at hour:minute of each weekday
WSmsWithinActiveWindow(hour, minute) ==
    /\ ret' = [op |-> "sms_within_active_window", hour |-> hour, minute |-> minute,
               open |-> [wd \in 0..6 |->
                   sms_within_active_window(sms_runtime, runtime,
                       [weekday |-> wd, hour |-> hour, minute |-> minute])]]
    /\ UNCHANGED <<clock, runtime, sms_runtime, lockVars, stopVars, paramVars, engine, SMS_ONE_SHOT_OPENING, dest_attempts, SMS_DEST_ATTEMPTS, voiceVars, smsVars, lifeVars>>

NextWindow ==
    \/ \E h \in ProbeHours, m \in ProbeMinutes : WWithinActiveWindow(h, m)
    \/ \E h \in ProbeHours, m \in ProbeMinutes : WSmsWithinActiveWindow(h, m)

SpecWindow == InitWindow /\ [][NextWindow]_vars

(***************************************************************************)
(* Claims about the active window (SpecWindow)                             *)
(***************************************************************************)
IsWin == ret.op \in {"within_active_window", "sms_within_active_window"}

\* the window string that applies to the call ret reports
ClaimHours ==
    IF ret.op = "within_active_window" THEN runtime.active_hours_local
    ELSE IF sms_runtime.active_hours_local.kind # "empty"
         THEN sms_runtime.active_hours_local
         ELSE runtime.active_hours_local

\* the allowed-days set that applies to the call ret reports
ClaimDays ==
    IF ret.op = "within_active_window" THEN runtime.active_days
    ELSE IF sms_runtime.active_days # {} THEN sms_runtime.active_days
         ELSE runtime.active_days

\* the allowed-days set configured for the channel of the call ret reports
ChannelDays ==
    IF ret.op = "within_active_window" THEN runtime.active_days
    ELSE sms_runtime.active_days

ClaimStart == ClaimHours.sh * 60 + ClaimHours.sm
ClaimEnd == ClaimHours.eh * 60 + ClaimHours.em
ClaimNow == ret.hour * 60 + ret.minute
AllowedWd(days) == {wd \in 0..6 : days = {} \/ wd_map[wd + 1] \in days}

\* C8: for a window with start > end, on an allowed day, is_open is true at
\* start, at end and at every time after start or before end, and false at
\* every time strictly between end and start.
C8_WrapWindow ==
    (IsWin /\ ClaimHours.kind = "ok" /\ ClaimStart > ClaimEnd) =>
        \A wd \in AllowedWd(ClaimDays) :
            /\ (ClaimNow >= ClaimStart \/ ClaimNow <= ClaimEnd) => ret.open[wd]
            /\ (ClaimEnd < ClaimNow /\ ClaimNow < ClaimStart) => ~ret.open[wd]

\* a wrapped window probed exactly at its end, open on an allowed day
C8_Witness ==
    /\ IsWin /\ ClaimHours.kind = "ok" /\ ClaimStart > ClaimEnd
    /\ ClaimNow = ClaimEnd
    /\ \E wd \in AllowedWd(ClaimDays) : ret.open[wd]

\* C9: for a window with start <= end, on an allowed day, is_open is true
\* exactly when start <= now <= end.
C9_SameDayWindow ==
    (IsWin /\ ClaimHours.kind = "ok" /\ ClaimStart <= ClaimEnd) =>
        \A wd \in AllowedWd(ClaimDays) :
            ret.open[wd] <=> (ClaimStart <= ClaimNow /\ ClaimNow <= ClaimEnd)

\* a same-day window with start < end probed exactly at its end
C9_Witness ==
    /\ IsWin /\ ClaimHours.kind = "ok" /\ ClaimStart < ClaimEnd
    /\ ClaimNow = ClaimEnd
    /\ \E wd \in AllowedWd(ClaimDays) : ret.open[wd]

\* C10 as claimed: for each channel, with that channel's own allowed_days
\* empty is_open is the same on all seven weekdays, and with it non-empty
\* is_open is false on every weekday outside it.
C10_Days_Original ==
    IsWin =>
        /\ ChannelDays = {} => \A a, b \in 0..6 : ret.open[a] = ret.open[b]
        /\ ChannelDays # {} =>
               \A wd \in 0..6 : wd_map[wd + 1] \notin ChannelDays => ~ret.open[wd]

\* C10 amended: the set consulted is the channel's own for voice, and for SMS
\* the SMS set when it is non-empty and the voice set otherwise; with that
\* set empty is_open is the same on all seven weekdays, and with it non-empty
\* is_open is false on every weekday outside it.
C10_Days ==
    IsWin =>
        /\ ClaimDays = {} => \A a, b \in 0..6 : ret.open[a] = ret.open[b]
        /\ ClaimDays # {} =>
               \A wd \in 0..6 : wd_map[wd + 1] \notin ClaimDays => ~ret.open[wd]

\* an SMS probe that falls back to the voice days and is open on one of them
C10_Witness ==
    /\ ret.op = "sms_within_active_window"
    /\ sms_runtime.active_days = {}
    /\ runtime.active_days # {}
    /\ \E wd \in 0..6 : ret.open[wd]
    /\ \E wd \in 0..6 : ~ret.open[wd]

(***************************************************************************)
(* LifecycleStore: _CALL_META, _TRANSCRIPTS and the history files.  A dict *)
(* is a function on its keys.                                              *)
(***************************************************************************)
\* d[k] = v
DictSet(d, k, v) == (k :> v) @@ d

\* d.pop(k, None)
DictPop(d, k) == [x \in DOMAIN d \ {k} |-> d[x]]

\* the keys of a call's metadata that hold numbers
MetaIntKeys == {"started_at", "completed_at", "duration_seconds"}

\* "meta.get(k) in (None, "", 0)" for a key that is present
Falsy(k, v) == IF k \in MetaIntKeys THEN v = 0 ELSE v = ""

\* Mutant of _init_call_meta_if_absent: the last write wins
init_call_meta_overwrite(store, sid, kwargs) ==
    DictSet(store, sid, IF sid \in DOMAIN store THEN kwargs @@ store[sid] ELSE kwargs)

\* _init_call_meta_if_absent(sid, **kwargs)
init_call_meta_if_absent(store, sid, kwargs) ==
    LET meta == IF sid \in DOMAIN store THEN store[sid] ELSE EmptyDict
        new == [k \in DOMAIN meta \cup DOMAIN kwargs |->
                   IF k \in DOMAIN kwargs
                          /\ (k \notin DOMAIN meta \/ Falsy(k, meta[k]))
                   THEN kwargs[k] ELSE meta[k]]
    IN  DictSet(store, sid, new)

\* the keyword arguments of the callers: to, from_n, started_at
BeginArgs(to, from_n, started_at) ==
    [to |-> to, from_n |-> from_n, started_at |-> started_at]

\* Mutant of the completed branch: a sid without a record gets none
complete_known_call_meta(store, sid, now, dur) ==
    IF sid \in DOMAIN store
    THEN DictSet(store, sid,
                 ("completed_at" :> now) @@ ("duration_seconds" :> dur) @@ store[sid])
    ELSE store

\* the completed branch of status_callback: _CALL_META.setdefault(sid, {}),
\* completed_at and duration_seconds (the voice and dialog index that the
\* call parameters add are not part of the state)
complete_call_meta(store, sid, now, dur) ==
    LET meta == IF sid \in DOMAIN store THEN store[sid] ELSE EmptyDict
    IN  DictSet(store, sid,
                ("completed_at" :> now) @@ ("duration_seconds" :> dur) @@ meta)

\* d.get(k, default)
DictGet(d, k, default) == IF k \in DOMAIN d THEN d[k] ELSE default

\* Mutant of _persist_call_history: nothing is written
persist_call_history_never(history, store, transcripts, sid) == history

\* _persist_call_history(sid): <sid>.json written with the metadata and the
\* transcript as they are; nothing for an empty sid
persist_call_history(history, store, transcripts, sid) ==
    IF sid = NoSid THEN history
    ELSE DictSet(history, sid,
                 Append(DictGet(history, sid, << >>),
                        [meta |-> DictGet(store, sid, EmptyDict),
                         transcript |-> DictGet(transcripts, sid, << >>)]))

\* message sids: the provider's, and the "ERR-<time>" of a failed send
SmSid(n) == [kind |-> "SM", n |-> n]
ErrSid(t) == [kind |-> "ERR", n |-> t]

\* the sid the provider gives its next message
FreshSmSid(history) ==
    SmSid(Cardinality({k \in DOMAIN history : k.kind = "SM"}) + 1)

\* _persist_sms_history(sid, meta): <sid>.json written; of the metadata the
\* status is kept
persist_sms_history(history, sid, status) ==
    DictSet(history, sid, [status |-> status])

(***************************************************************************)
(* SpecMeta: _init_call_meta_if_absent as placement and the /voice, /hello *)
(* and /status handlers call it, with the To and From a request can carry  *)
(* (none gives "").                                                        *)
(***************************************************************************)
MetaSids == {1, 2}
MetaTo == {"", "X"}
MetaFrom == {"", "F", "G"}
\* int(time.time()) of the calls: two instants of a running process
MetaInstants == {100, 200}

InitMeta ==
    /\ clock = 100
    /\ runtime = DefaultRuntime
    /\ sms_runtime = DefaultSmsRuntime
    /\ dest_attempts = EmptyLedger
    /\ SMS_DEST_ATTEMPTS = EmptyLedger
    /\ ret = None
    /\ SchedulersIdle

MAdvance ==
    /\ \E t \in MetaInstants : t > clock /\ clock' = t
    /\ ret' = None
    /\ UNCHANGED <<runtime, sms_runtime, lockVars, stopVars, paramVars, engine, SMS_ONE_SHOT_OPENING, dest_attempts, SMS_DEST_ATTEMPTS,
                   voiceVars, smsVars, lifeVars>>

MInitCallMeta(sid, to, from_n) ==
    /\ CALL_META' = init_call_meta_if_absent(CALL_META, sid,
                                             BeginArgs(to, from_n, clock))
    /\ ret' = [op |-> "init_call_meta", sid |-> sid,
               kwargs |-> BeginArgs(to, from_n, clock), before |-> CALL_META]
    /\ UNCHANGED <<clock, runtime, sms_runtime, lockVars, stopVars, paramVars, engine, SMS_ONE_SHOT_OPENING, dest_attempts, SMS_DEST_ATTEMPTS,
                   voiceVars, smsVars, TRANSCRIPTS, HISTORY, SMS_HISTORY,
                   status_handler>>

NextMeta ==
    \/ MAdvance
    \/ \E sid \in MetaSids, to \in MetaTo, from_n \in MetaFrom :
          MInitCallMeta(sid, to, from_n)

SpecMeta == InitMeta /\ [][NextMeta]_vars

\* a call of _init_call_meta_if_absent for a sid that was begun before
IsSecondBegin ==
    /\ ret.op = "init_call_meta"
    /\ ret.sid \in DOMAIN ret.before

\* C12 as stated: a second begin(sid, ...) leaves every metadata field that
\* the first call set unchanged.
C12_FirstWriteWins_Original ==
    IsSecondBegin =>
        \A k \in DOMAIN ret.before[ret.sid] :
            CALL_META[ret.sid][k] = ret.before[ret.sid][k]

\* C12: a second begin(sid, ...) leaves every metadata field unchanged that
\* holds a value other than "" and 0; a field that holds "" or 0 takes the
\* value the second call gives for it.
C12_FirstWriteWins ==
    IsSecondBegin =>
        \A k \in DOMAIN ret.before[ret.sid] :
            CALL_META[ret.sid][k] =
                IF Falsy(k, ret.before[ret.sid][k]) /\ k \in DOMAIN ret.kwargs
                THEN ret.kwargs[k]
                ELSE ret.before[ret.sid][k]

\* a second begin whose From and time differ from the ones the first call set
C12_Witness ==
    /\ IsSecondBegin
    /\ ret.before[ret.sid]["from_n"] = "F"
    /\ ret.kwargs["from_n"] = "G"
    /\ ret.kwargs["started_at"] # ret.before[ret.sid]["started_at"]
    /\ CALL_META[ret.sid]["from_n"] = "F"

(***************************************************************************)
(* Voice scheduler: _dialer_loop, api_call_now, _place_call_now and the    *)
(* provider's callbacks (Spec).  A thread's step runs from one blocking    *)
(* point to the next: the provider request client.calls.create is the      *)
(* blocking point inside _place_call_now, time.sleep the one at the end of *)
(* a loop iteration.  The lifecycle store (_CALL_META, _TRANSCRIPTS,       *)
(* _CALL_PARAMS_BY_SID) and _LAST_DIAL_ERROR are not part of the state.    *)
(***************************************************************************)
PENDING_TTL_SECONDS == 30

\* RuntimeConfig.twilio_http_timeout_seconds: no provider request outlasts it
twilio_http_timeout_seconds == 10

\* The instants the clock of Spec visits: 10 is inside the pending TTL and
\* the first interval of a schedule armed at 0, 40 and 80 are past them, 50
\* is inside the interval of a schedule armed at 40 and past a pending TTL
\* begun at 10, 3700 is more than an hour and 90100 more than a day after
\* all of these.
ClockInstants == {0, 10, 40, 50, 80, 3700, 90100}

\* _now_local(), the local time zone being UTC: 1 January 1970 was a Thursday
now_local(t) ==
    [weekday |-> ((t \div 86400) + 3) % 7,
     hour |-> (t % 86400) \div 3600,
     minute |-> (t % 3600) \div 60]

\* _diagnostics_ready_to_call()[0]: no fatal reason
diagnostics_ready_to_call(rt) ==
    rt.to_number # "" /\ rt.from_number # "" /\ rt.twilio_client

\* Mutant of _compute_next_interval_seconds: no lower end
compute_next_interval_from_zero(rt) == 0..rt.max_interval_seconds

\* the values _compute_next_interval_seconds() can return
compute_next_interval_seconds(rt) ==
    LET lo == Max2(30, rt.min_interval_seconds)
        hi == Max2(lo, rt.max_interval_seconds)
    IN  lo..hi

\* _is_outgoing_pending() at time t: its result and what it leaves in
\* _PENDING_UNTIL_TS
is_outgoing_pending(until, t) ==
    IF until = NoTs THEN [pending |-> FALSE, until |-> NoTs]
    ELSE IF t >= until THEN [pending |-> FALSE, until |-> NoTs]
    ELSE [pending |-> TRUE, until |-> until]

\* Mutant of the guard of _place_call_now: PUBLIC_BASE_URL is not looked at
place_configured_without_url(rt) ==
    rt.twilio_client /\ rt.to_number # "" /\ rt.from_number # ""

\* the guard at the head of _place_call_now
place_configured(rt) ==
    rt.twilio_client /\ rt.to_number # "" /\ rt.from_number # ""
        /\ rt.public_base_url # ""

Ready == diagnostics_ready_to_call(runtime)
WindowOpen == within_active_window(runtime, now_local(clock))
Can(now) == can_attempt(dest_attempts, now, runtime.to_number,
                        runtime.hourly_max_attempts, runtime.daily_max_attempts)
Pending == is_outgoing_pending(PENDING_UNTIL_TS, clock)
Intervals == compute_next_interval_seconds(runtime)

\* Mutant of _initialize_schedule_if_needed: the schedule is armed anew at
\* every call
initialize_schedule_always(now, iv) ==
    next_call_epoch_s' = now + iv /\ interval_total_seconds' = iv

\* _initialize_schedule_if_needed(now)
initialize_schedule_if_needed(now, iv) ==
    IF next_call_epoch_s = NoTs
    THEN next_call_epoch_s' = now + iv /\ interval_total_seconds' = iv
    ELSE UNCHANGED <<next_call_epoch_s, interval_total_seconds>>

\* Mutant of _reset_schedule_after_completion: the schedule is left as it is
reset_schedule_never(now, iv) ==
    UNCHANGED <<next_call_epoch_s, interval_total_seconds>>

\* _reset_schedule_after_completion(now)
reset_schedule_after_completion(now, iv) ==
    /\ next_call_epoch_s' = now + iv
    /\ interval_total_seconds' = iv

\* the sid the provider gives its next call
FreshSid == CHOOSE s \in 1..MaxCalls :
                calls[s] = "none" /\ \A u \in 1..MaxCalls : calls[u] = "none" => s <= u

ProviderCanAccept == \E s \in 1..MaxCalls : calls[s] = "none"

\* _place_call_now after client.calls.create returned a call: _note_attempt,
\* _mark_outgoing_pending
placed_by_provider ==
    /\ ProviderCanAccept
    /\ calls' = [calls EXCEPT ![FreshSid] = "active"]
    /\ dest_attempts' = note_attempt(dest_attempts, clock, runtime.to_number)
    /\ PENDING_UNTIL_TS' = clock + PENDING_TTL_SECONDS
    /\ CALL_META' = init_call_meta_if_absent(CALL_META, FreshSid,
           BeginArgs(runtime.to_number, runtime.from_number, clock))
    /\ UNCHANGED <<TRANSCRIPTS, HISTORY, SMS_HISTORY, status_handler>>

\* what the last step refused: the thread, the reason and the ledger it found
Denied(by, reason) ==
    [op |-> "denied", by |-> by, reason |-> reason,
     before |-> dest_attempts, sms_before |-> SMS_DEST_ATTEMPTS]

\* the provider request of a thread failed: the thread, its now, and the
\* stores, ledgers and schedules it found
Failed(by, now) ==
    [op |-> "placement_failed", by |-> by, now |-> now,
     before |-> [CALL_META |-> CALL_META, HISTORY |-> HISTORY,
                 SMS_HISTORY |-> SMS_HISTORY,
                 dest_attempts |-> dest_attempts,
                 SMS_DEST_ATTEMPTS |-> SMS_DEST_ATTEMPTS,
                 next_call_epoch_s |-> next_call_epoch_s,
                 interval_total_seconds |-> interval_total_seconds,
                 next_sms_epoch_s |-> next_sms_epoch_s,
                 sms_interval_total_seconds |-> sms_interval_total_seconds]]

\* what the voice threads leave alone when they touch no lifecycle store
otherVars == <<runtime, sms_runtime, lockVars, stopVars, paramVars, engine, SMS_ONE_SHOT_OPENING, SMS_DEST_ATTEMPTS, smsVars, lifeVars>>

\* what the voice threads and callbacks leave alone when they do
smsSide == <<runtime, sms_runtime, lockVars, stopVars, paramVars, engine, SMS_ONE_SHOT_OPENING, SMS_DEST_ATTEMPTS, smsVars>>

\* Mutant of Event.clear: the flag is left as it is
event_clear_noop(flag) == flag

\* _manual_call_requested.clear(): the event is one boolean
event_clear(flag) == FALSE

\* Mutant of Event.set: the flag is left as it is
event_set_noop(flag) == flag

\* _manual_call_requested.set()
event_set(flag) == TRUE

(* ------------------------- _dialer_loop ------------------------------- *)
ManualAdmitted == Ready /\ CURRENT_CALL_SID = NoSid /\ WindowOpen

\* top of an iteration, no manual request pending
DialerNoManual ==
    /\ dialer.pc = "top"
    /\ ~manual_call_requested
    /\ \E iv \in Intervals : initialize_schedule_if_needed(clock, iv)
    /\ dialer' = [pc |-> "deadline", now |-> clock]
    /\ ret' = None
    /\ UNCHANGED <<clock, dest_attempts, CURRENT_CALL_SID, PENDING_UNTIL_TS,
                   manual_call_requested, call_now, calls, otherVars>>

\* manual request, refused by readiness, a call in progress or the window
DialerManualDenied ==
    /\ dialer.pc = "top"
    /\ manual_call_requested
    /\ ~ManualAdmitted
    /\ manual_call_requested' = event_clear(manual_call_requested)
    /\ \E iv \in Intervals : reset_schedule_after_completion(clock, iv)
    /\ dialer' = [pc |-> "deadline", now |-> clock]
    /\ ret' = Denied("_dialer_loop", "admission")
    /\ UNCHANGED <<clock, dest_attempts, CURRENT_CALL_SID, PENDING_UNTIL_TS,
                   call_now, calls, otherVars>>

\* manual request, refused by the cap: the schedule is left as it is
DialerManualCapped ==
    /\ dialer.pc = "top"
    /\ manual_call_requested
    /\ ManualAdmitted
    /\ ~Can(clock).allowed
    /\ manual_call_requested' = event_clear(manual_call_requested)
    /\ dest_attempts' = Can(clock).attempts
    /\ \E iv \in Intervals : initialize_schedule_if_needed(clock, iv)
    /\ dialer' = [pc |-> "deadline", now |-> clock]
    /\ ret' = Denied("_dialer_loop", "cap")
    /\ UNCHANGED <<clock, CURRENT_CALL_SID, PENDING_UNTIL_TS,
                   call_now, calls, otherVars>>

\* manual request admitted, _place_call_now returns False at its guard
DialerManualNotConfigured ==
    /\ dialer.pc = "top"
    /\ manual_call_requested
    /\ ManualAdmitted
    /\ Can(clock).allowed
    /\ ~place_configured(runtime)
    /\ manual_call_requested' = event_clear(manual_call_requested)
    /\ dest_attempts' = Can(clock).attempts
    /\ \E iv \in Intervals : reset_schedule_after_completion(clock, iv)
    /\ dialer' = [pc |-> "deadline", now |-> clock]
    /\ ret' = Denied("_dialer_loop", "configuration")
    /\ UNCHANGED <<clock, CURRENT_CALL_SID, PENDING_UNTIL_TS,
                   call_now, calls, otherVars>>

\* manual request admitted, the provider request is sent
DialerManualPlace ==
    /\ dialer.pc = "top"
    /\ manual_call_requested
    /\ ManualAdmitted
    /\ Can(clock).allowed
    /\ place_configured(runtime)
    /\ manual_call_requested' = event_clear(manual_call_requested)
    /\ dest_attempts' = Can(clock).attempts
    /\ \E iv \in Intervals : initialize_schedule_if_needed(clock, iv)
    /\ dialer' = [pc |-> "manual_call", now |-> clock]
    /\ ret' = None
    /\ UNCHANGED <<clock, CURRENT_CALL_SID, PENDING_UNTIL_TS,
                   call_now, calls, otherVars>>

\* where the loop goes on after _place_call_now returned
AfterCall == IF dialer.pc = "manual_call"
             THEN [pc |-> "deadline", now |-> dialer.now]
             ELSE [pc |-> "top", now |-> 0]

\* client.calls.create returns a call to the dialer thread
DialerCallAccepted ==
    /\ dialer.pc \in {"manual_call", "deadline_call"}
    /\ placed_by_provider
    /\ dialer' = AfterCall
    /\ ret' = None
    /\ UNCHANGED <<clock, CURRENT_CALL_SID, next_call_epoch_s,
                   interval_total_seconds, manual_call_requested, call_now,
                   smsSide>>

\* client.calls.create raises in the dialer thread
DialerCallFailed ==
    /\ dialer.pc \in {"manual_call", "deadline_call"}
    /\ \E iv \in Intervals : reset_schedule_after_completion(dialer.now, iv)
    /\ dialer' = AfterCall
    /\ ret' = Failed("_dialer_loop", dialer.now)
    /\ UNCHANGED <<clock, dest_attempts, CURRENT_CALL_SID, PENDING_UNTIL_TS,
                   manual_call_requested, call_now, calls, otherVars>>

\* Mutant of the deadline test: a deadline that falls on the tick's now is not
\* due yet
ReadyTimeLate == next_call_epoch_s # NoTs /\ dialer.now > next_call_epoch_s

\* "ready_time = (_next_call_epoch_s is not None and now >= _next_call_epoch_s)"
ReadyTime == next_call_epoch_s # NoTs /\ dialer.now >= next_call_epoch_s

\* "ready and not _is_outgoing_pending() and not _get_current_call_sid() and
\* _within_active_window(...)": _is_outgoing_pending runs only when ready
DeadlineAdmitted ==
    Ready /\ ~Pending.pending /\ CURRENT_CALL_SID = NoSid /\ WindowOpen

PendingAfterDeadlineTest == IF Ready THEN Pending.until ELSE PENDING_UNTIL_TS

\* Mutant of the tick that finds the deadline not due: one deadline for both
\* channels, the tick writes the voice deadline into the SMS schedule
DialerNotDueSharedDeadline ==
    /\ dialer.pc = "deadline"
    /\ ~ReadyTime
    /\ dialer' = [pc |-> "top", now |-> 0]
    /\ next_sms_epoch_s' = next_call_epoch_s
    /\ ret' = None
    /\ UNCHANGED <<clock, runtime, sms_runtime, lockVars, stopVars, paramVars,
                   engine, SMS_ONE_SHOT_OPENING, dest_attempts,
                   SMS_DEST_ATTEMPTS, CURRENT_CALL_SID, PENDING_UNTIL_TS,
                   next_call_epoch_s, interval_total_seconds,
                   manual_call_requested, call_now, calls,
                   sms_interval_total_seconds, sms_loop, send_now, lifeVars>>

\* the deadline has not come
DialerNotDue ==
    /\ dialer.pc = "deadline"
    /\ ~ReadyTime
    /\ dialer' = [pc |-> "top", now |-> 0]
    /\ ret' = None
    /\ UNCHANGED <<clock, dest_attempts, CURRENT_CALL_SID, PENDING_UNTIL_TS,
                   next_call_epoch_s, interval_total_seconds,
                   manual_call_requested, call_now, calls, otherVars>>

\* the deadline has come; refused by readiness, a pending or running call or
\* the window
DialerDeadlineDenied ==
    /\ dialer.pc = "deadline"
    /\ ReadyTime
    /\ ~DeadlineAdmitted
    /\ PENDING_UNTIL_TS' = PendingAfterDeadlineTest
    /\ \E iv \in Intervals : reset_schedule_after_completion(dialer.now, iv)
    /\ dialer' = [pc |-> "top", now |-> 0]
    /\ ret' = Denied("_dialer_loop", "admission")
    /\ UNCHANGED <<clock, dest_attempts, CURRENT_CALL_SID,
                   manual_call_requested, call_now, calls, otherVars>>

\* the deadline has come; refused by the cap
DialerDeadlineCapped ==
    /\ dialer.pc = "deadline"
    /\ ReadyTime
    /\ DeadlineAdmitted
    /\ ~Can(dialer.now).allowed
    /\ PENDING_UNTIL_TS' = PendingAfterDeadlineTest
    /\ dest_attempts' = Can(dialer.now).attempts
    /\ \E iv \in Intervals : reset_schedule_after_completion(dialer.now, iv)
    /\ dialer' = [pc |-> "top", now |-> 0]
    /\ ret' = Denied("_dialer_loop", "cap")
    /\ UNCHANGED <<clock, CURRENT_CALL_SID,
                   manual_call_requested, call_now, calls, otherVars>>

\* the deadline has come; admitted, _place_call_now returns False at its guard
DialerDeadlineNotConfigured ==
    /\ dialer.pc = "deadline"
    /\ ReadyTime
    /\ DeadlineAdmitted
    /\ Can(dialer.now).allowed
    /\ ~place_configured(runtime)
    /\ PENDING_UNTIL_TS' = PendingAfterDeadlineTest
    /\ dest_attempts' = Can(dialer.now).attempts
    /\ \E iv \in Intervals : reset_schedule_after_completion(dialer.now, iv)
    /\ dialer' = [pc |-> "top", now |-> 0]
    /\ ret' = Denied("_dialer_loop", "configuration")
    /\ UNCHANGED <<clock, CURRENT_CALL_SID,
                   manual_call_requested, call_now, calls, otherVars>>

\* the deadline has come; admitted, the provider request is sent
DialerDeadlinePlace ==
    /\ dialer.pc = "deadline"
    /\ ReadyTime
    /\ DeadlineAdmitted
    /\ Can(dialer.now).allowed
    /\ place_configured(runtime)
    /\ PENDING_UNTIL_TS' = PendingAfterDeadlineTest
    /\ dest_attempts' = Can(dialer.now).attempts
    /\ dialer' = [pc |-> "deadline_call", now |-> dialer.now]
    /\ ret' = None
    /\ UNCHANGED <<clock, CURRENT_CALL_SID, next_call_epoch_s,
                   interval_total_seconds, manual_call_requested, call_now,
                   calls, otherVars>>

(* ------------------------- api_call_now ------------------------------- *)
\* the tests before _can_attempt: readiness, window, a call in progress, a
\* pending call (ready implies that _runtime.to_number is set)
\* the reasons _diagnostics_ready_to_call() returns; the base URL is a
\* warning, not a fatal reason ("U" stands for a well-formed public URL)
diagnostics_reasons(rt) ==
    (IF rt.to_number = "" THEN {"missing_to_number"} ELSE {})
    \cup (IF rt.from_number = "" THEN {"missing_from_number"} ELSE {})
    \cup (IF ~rt.twilio_client THEN {"twilio_client_not_initialized"} ELSE {})
    \cup (IF rt.public_base_url = "" THEN {"missing_public_base_url"} ELSE {})

\* Mutant of api_call_now's tests: the cap is tested before the call in
\* progress and the pending mark
api_call_now_answer_cap_first ==
    IF ~Ready
    THEN [reason |-> "not_ready", reasons |-> diagnostics_reasons(runtime)]
    ELSE IF ~WindowOpen THEN [reason |-> "outside_active_window", reasons |-> {}]
    ELSE IF ~Can(clock).allowed THEN [reason |-> "cap_reached", reasons |-> {}]
    ELSE IF CURRENT_CALL_SID # NoSid THEN [reason |-> "already_in_progress", reasons |-> {}]
    ELSE IF Pending.pending THEN [reason |-> "pending", reasons |-> {}]
    ELSE [reason |-> "ok", reasons |-> {}]

\* what api_call_now answers before it places or queues: its tests in their
\* order, each returning at once
api_call_now_answer ==
    IF ~Ready
    THEN [reason |-> "not_ready", reasons |-> diagnostics_reasons(runtime)]
    ELSE IF ~WindowOpen THEN [reason |-> "outside_active_window", reasons |-> {}]
    ELSE IF runtime.to_number = "" THEN [reason |-> "missing_destination", reasons |-> {}]
    ELSE IF CURRENT_CALL_SID # NoSid THEN [reason |-> "already_in_progress", reasons |-> {}]
    ELSE IF Pending.pending THEN [reason |-> "pending", reasons |-> {}]
    ELSE IF ~Can(clock).allowed THEN [reason |-> "cap_reached", reasons |-> {}]
    ELSE [reason |-> "ok", reasons |-> {}]

\* a denial together with the answer the caller gets
Answered(denied, answer) == [answer |-> answer] @@ denied

CallNowAdmitted ==
    Ready /\ WindowOpen /\ CURRENT_CALL_SID = NoSid /\ ~Pending.pending

\* answered not_ready, outside_active_window, already_in_progress or pending
ApiCallNowRefused ==
    /\ call_now.pc = "idle"
    /\ ~CallNowAdmitted
    /\ ret' = Answered(Denied("api_call_now", "admission"), api_call_now_answer)
    /\ UNCHANGED <<clock, dest_attempts, voiceVars, otherVars>>

\* answered cap_reached
ApiCallNowCapped ==
    /\ call_now.pc = "idle"
    /\ CallNowAdmitted
    /\ ~Can(clock).allowed
    /\ PENDING_UNTIL_TS' = Pending.until
    /\ dest_attempts' = Can(clock).attempts
    /\ ret' = Answered(Denied("api_call_now", "cap"), api_call_now_answer)
    /\ UNCHANGED <<clock, CURRENT_CALL_SID, next_call_epoch_s,
                   interval_total_seconds, manual_call_requested, dialer,
                   call_now, calls, otherVars>>

\* direct dial, _place_call_now returns False at its guard: twilio_error
ApiCallNowNotConfigured ==
    /\ call_now.pc = "idle"
    /\ CallNowAdmitted
    /\ Can(clock).allowed
    /\ runtime.direct_dial
    /\ ~place_configured(runtime)
    /\ PENDING_UNTIL_TS' = Pending.until
    /\ dest_attempts' = Can(clock).attempts
    /\ ret' = Denied("api_call_now", "configuration")
    /\ UNCHANGED <<clock, CURRENT_CALL_SID, next_call_epoch_s,
                   interval_total_seconds, manual_call_requested, dialer,
                   call_now, calls, otherVars>>

\* direct dial, the provider request is sent
ApiCallNowPlace ==
    /\ call_now.pc = "idle"
    /\ CallNowAdmitted
    /\ Can(clock).allowed
    /\ runtime.direct_dial
    /\ place_configured(runtime)
    /\ PENDING_UNTIL_TS' = Pending.until
    /\ dest_attempts' = Can(clock).attempts
    /\ call_now' = [pc |-> "calling"]
    /\ ret' = None
    /\ UNCHANGED <<clock, CURRENT_CALL_SID, next_call_epoch_s,
                   interval_total_seconds, manual_call_requested, dialer,
                   calls, otherVars>>

\* DIRECT_DIAL_ON_TRIGGER off: _mark_outgoing_pending, _manual_call_requested.set
ApiCallNowQueued ==
    /\ call_now.pc = "idle"
    /\ CallNowAdmitted
    /\ Can(clock).allowed
    /\ ~runtime.direct_dial
    /\ PENDING_UNTIL_TS' = clock + PENDING_TTL_SECONDS
    /\ manual_call_requested' = event_set(manual_call_requested)
    /\ dest_attempts' = Can(clock).attempts
    /\ ret' = [op |-> "queued", already |-> manual_call_requested]
    /\ UNCHANGED <<clock, CURRENT_CALL_SID, next_call_epoch_s,
                   interval_total_seconds, dialer, call_now, calls, otherVars>>

\* client.calls.create returns a call to the request thread
ApiCallNowAccepted ==
    /\ call_now.pc = "calling"
    /\ placed_by_provider
    /\ call_now' = [pc |-> "idle"]
    /\ ret' = None
    /\ UNCHANGED <<clock, CURRENT_CALL_SID, next_call_epoch_s,
                   interval_total_seconds, manual_call_requested, dialer,
                   smsSide>>

\* client.calls.create raises in the request thread
ApiCallNowFailed ==
    /\ call_now.pc = "calling"
    /\ call_now' = [pc |-> "idle"]
    /\ ret' = Failed("api_call_now", clock)
    /\ UNCHANGED <<clock, dest_attempts, CURRENT_CALL_SID, PENDING_UNTIL_TS,
                   next_call_epoch_s, interval_total_seconds,
                   manual_call_requested, dialer, calls, otherVars>>

(* ------------------------- provider callbacks ------------------------- *)
\* the duration a completed callback reports
Durations == {7}

\* /status with initiated, ringing, in-progress or answered; /voice.  In Spec
\* the callee does not speak (no /hello, /dialog, /transcribe-partial) and the
\* provider sends each call's terminal callback once; SpecLifecycle has the
\* other notifications.
CallProgress(sid) ==
    /\ calls[sid] = "active"
    /\ CURRENT_CALL_SID' = sid
    /\ PENDING_UNTIL_TS' = NoTs
    /\ CALL_META' = init_call_meta_if_absent(CALL_META, sid,
           BeginArgs(runtime.to_number, runtime.from_number, clock))
    /\ ret' = None
    /\ UNCHANGED <<clock, dest_attempts, next_call_epoch_s,
                   interval_total_seconds, manual_call_requested, dialer,
                   call_now, calls, smsSide, TRANSCRIPTS, HISTORY, SMS_HISTORY,
                   status_handler>>

\* /status with completed
StatusCompleted(sid) ==
    /\ calls[sid] = "active"
    /\ calls' = [calls EXCEPT ![sid] = "done"]
    /\ CURRENT_CALL_SID' = NoSid
    /\ PENDING_UNTIL_TS' = NoTs
    /\ \E dur \in Durations :
          CALL_META' = complete_call_meta(CALL_META, sid, clock, dur)
    /\ HISTORY' = persist_call_history(HISTORY, CALL_META', TRANSCRIPTS, sid)
    /\ TRANSCRIPTS' = DictPop(TRANSCRIPTS, sid)
    /\ \E iv \in Intervals : reset_schedule_after_completion(clock, iv)
    /\ ret' = None
    /\ UNCHANGED <<clock, dest_attempts, manual_call_requested, dialer,
                   call_now, smsSide, SMS_HISTORY, status_handler>>

\* /status with busy, failed, no-answer or canceled: the handler does nothing
StatusOtherFinal(sid) ==
    /\ calls[sid] = "active"
    /\ calls' = [calls EXCEPT ![sid] = "done"]
    /\ ret' = None
    /\ UNCHANGED <<clock, dest_attempts, CURRENT_CALL_SID, PENDING_UNTIL_TS,
                   next_call_epoch_s, interval_total_seconds,
                   manual_call_requested, dialer, call_now, otherVars>>

(***************************************************************************)
(* SMS scheduler: _sms_loop, api_texts_send_now and _send_sms_now.  The    *)
(* provider request client.messages.create is the blocking point inside    *)
(* _send_sms_now.  Nothing sets _sms_manual_send_requested, so the branch  *)
(* of _sms_loop that serves it never runs.                                 *)
(***************************************************************************)
\* the values _compute_next_sms_interval_seconds() can return
compute_next_sms_interval_seconds(sms) ==
    LET lo == Max2(60, sms.min_interval_seconds)
        hi == Max2(lo, sms.max_interval_seconds)
    IN  lo..hi

\* _sms_choose_from_number()
sms_choose_from_number(sms, rt) ==
    IF sms.from_number # "" THEN sms.from_number ELSE rt.from_number

\* Mutant of the tests of _send_sms_now: enabled is not looked at
sms_configured_when_disabled(sms, rt) ==
    rt.twilio_client /\ sms.to_number # ""
        /\ sms_choose_from_number(sms, rt) # ""

\* the tests of _send_sms_now before the window: enabled, client, TO and FROM
sms_configured(sms, rt) ==
    sms.enabled /\ rt.twilio_client /\ sms.to_number # ""
        /\ sms_choose_from_number(sms, rt) # ""

SmsWindowOpen == sms_within_active_window(sms_runtime, runtime, now_local(clock))
SmsCan == sms_can_attempt(SMS_DEST_ATTEMPTS, clock, sms_runtime.to_number,
                          sms_runtime.hourly_max_attempts,
                          sms_runtime.daily_max_attempts)
SmsIntervals == compute_next_sms_interval_seconds(sms_runtime)
SmsAdmitted == sms_configured(sms_runtime, runtime) /\ SmsWindowOpen

\* _initialize_sms_schedule_if_needed(now)
initialize_sms_schedule_if_needed(now, iv) ==
    IF next_sms_epoch_s = NoTs
    THEN next_sms_epoch_s' = now + iv /\ sms_interval_total_seconds' = iv
    ELSE UNCHANGED <<next_sms_epoch_s, sms_interval_total_seconds>>

\* _reset_sms_schedule_after_completion(now)
reset_sms_schedule_after_completion(now, iv) ==
    /\ next_sms_epoch_s' = now + iv
    /\ sms_interval_total_seconds' = iv

\* _sms_pop_one_shot_opening(): the opening it returns and the one it leaves
sms_pop_one_shot_opening(opening) == [line |-> opening, left |-> NoOpening]

\* _compose_sms_body(): where the body comes from ("default" stands for a
\* user message or the built sentence), and the opening that is left
compose_sms_body(opening, sms) ==
    LET popped == sms_pop_one_shot_opening(opening)
    IN  [body |-> IF popped.line # NoOpening THEN "opening"
                  ELSE IF sms.template # "" THEN "template" ELSE "default",
         left |-> popped.left]

smsOtherVars == <<runtime, sms_runtime, lockVars, stopVars, paramVars, engine, SMS_ONE_SHOT_OPENING, dest_attempts, voiceVars, lifeVars>>

\* what _send_sms_now leaves alone when it composes the body
smsSendFrame == <<runtime, sms_runtime, lockVars, stopVars, paramVars, engine, dest_attempts, voiceVars, lifeVars>>

\* what the SMS threads leave alone when they write the SMS history
voiceSide == <<runtime, sms_runtime, lockVars, stopVars, paramVars, engine, SMS_ONE_SHOT_OPENING, dest_attempts, voiceVars,
               CALL_META, TRANSCRIPTS, HISTORY, status_handler>>

\* _send_sms_now after client.messages.create returned a message:
\* _persist_sms_history, _sms_note_attempt
sent_by_provider ==
    /\ SMS_HISTORY' = persist_sms_history(SMS_HISTORY, FreshSmSid(SMS_HISTORY),
                                          "queued")
    /\ SMS_DEST_ATTEMPTS' =
           sms_note_attempt(SMS_DEST_ATTEMPTS, clock, sms_runtime.to_number)

\* _send_sms_now after client.messages.create raised: a failed record under
\* the sid "ERR-<time>"
send_failed ==
    /\ Cardinality({k \in DOMAIN SMS_HISTORY : k.kind = "ERR"}) < MaxSendFailures
    /\ SMS_HISTORY' = persist_sms_history(SMS_HISTORY, ErrSid(clock), "failed")
    /\ UNCHANGED SMS_DEST_ATTEMPTS

SmsReadyTime == next_sms_epoch_s # NoTs /\ clock >= next_sms_epoch_s

(* ------------------------- _sms_loop ---------------------------------- *)
\* SMS disabled: the iteration sleeps and starts again
SmsLoopDisabled ==
    /\ sms_loop.pc = "top"
    /\ ~sms_runtime.enabled
    /\ ret' = None
    /\ UNCHANGED <<clock, SMS_DEST_ATTEMPTS, smsVars, smsOtherVars>>

\* the deadline has not come (it is armed if it was not)
SmsLoopNotDue ==
    /\ sms_loop.pc = "top"
    /\ sms_runtime.enabled
    /\ ~SmsReadyTime
    /\ \E iv \in SmsIntervals : initialize_sms_schedule_if_needed(clock, iv)
    /\ ret' = None
    /\ UNCHANGED <<clock, SMS_DEST_ATTEMPTS, sms_loop, send_now, smsOtherVars>>

\* the deadline has come; the window is closed or _send_sms_now refuses
\* before its cap test
SmsLoopDenied ==
    /\ sms_loop.pc = "top"
    /\ sms_runtime.enabled
    /\ SmsReadyTime
    /\ ~SmsAdmitted
    /\ \E iv \in SmsIntervals : reset_sms_schedule_after_completion(clock, iv)
    /\ ret' = Denied("_sms_loop", "admission")
    /\ UNCHANGED <<clock, SMS_DEST_ATTEMPTS, sms_loop, send_now, smsOtherVars>>

\* the deadline has come; _send_sms_now answers "Cap reached"
SmsLoopCapped ==
    /\ sms_loop.pc = "top"
    /\ sms_runtime.enabled
    /\ SmsReadyTime
    /\ SmsAdmitted
    /\ ~SmsCan.allowed
    /\ SMS_DEST_ATTEMPTS' = SmsCan.attempts
    /\ \E iv \in SmsIntervals : reset_sms_schedule_after_completion(clock, iv)
    /\ ret' = Denied("_sms_loop", "cap")
    /\ UNCHANGED <<clock, sms_loop, send_now, smsOtherVars>>

\* the deadline has come; admitted, the provider request is sent
SmsLoopSend ==
    /\ sms_loop.pc = "top"
    /\ sms_runtime.enabled
    /\ SmsReadyTime
    /\ SmsAdmitted
    /\ SmsCan.allowed
    /\ SMS_DEST_ATTEMPTS' = SmsCan.attempts
    /\ sms_loop' = [pc |-> "sending", now |-> clock]
    /\ SMS_ONE_SHOT_OPENING' =
           compose_sms_body(SMS_ONE_SHOT_OPENING, sms_runtime).left
    /\ ret' = None
    /\ UNCHANGED <<clock, next_sms_epoch_s, sms_interval_total_seconds,
                   send_now, smsSendFrame>>

\* client.messages.create returns a message to the SMS thread
SmsLoopSent ==
    /\ sms_loop.pc = "sending"
    /\ sent_by_provider
    /\ \E iv \in SmsIntervals :
           reset_sms_schedule_after_completion(sms_loop.now, iv)
    /\ sms_loop' = [pc |-> "top", now |-> 0]
    /\ ret' = None
    /\ UNCHANGED <<clock, send_now, voiceSide>>

\* client.messages.create raises in the SMS thread
SmsLoopSendFailed ==
    /\ sms_loop.pc = "sending"
    /\ \E iv \in SmsIntervals :
           reset_sms_schedule_after_completion(sms_loop.now, iv)
    /\ send_failed
    /\ sms_loop' = [pc |-> "top", now |-> 0]
    /\ ret' = Failed("_sms_loop", sms_loop.now)
    /\ UNCHANGED <<clock, send_now, voiceSide>>

(* ------------------------- api_texts_send_now ------------------------- *)
\* what api_texts_send_now answers before the provider request: its own
\* test of enabled, then the tests of _send_sms_now in their order, each
\* returning at once
send_sms_now_answer ==
    IF ~sms_runtime.enabled THEN "disabled"
    ELSE IF ~runtime.twilio_client THEN "Twilio client missing"
    ELSE IF sms_runtime.to_number = ""
            \/ sms_choose_from_number(sms_runtime, runtime) = ""
         THEN "Missing SMS TO or FROM"
    ELSE IF ~SmsWindowOpen THEN "Outside active SMS window"
    ELSE IF ~SmsCan.allowed THEN "Cap reached"
    ELSE "ok"

\* answered disabled, or _send_sms_now refuses before its cap test
SendNowDenied ==
    /\ send_now.pc = "idle"
    /\ ~SmsAdmitted
    /\ ret' = Answered(Denied("api_texts_send_now", "admission"),
                       [reason |-> send_sms_now_answer, reasons |-> {}])
    /\ UNCHANGED <<clock, SMS_DEST_ATTEMPTS, smsVars, smsOtherVars>>

\* _send_sms_now answers "Cap reached"
SendNowCapped ==
    /\ send_now.pc = "idle"
    /\ SmsAdmitted
    /\ ~SmsCan.allowed
    /\ SMS_DEST_ATTEMPTS' = SmsCan.attempts
    /\ ret' = Answered(Denied("api_texts_send_now", "cap"),
                       [reason |-> send_sms_now_answer, reasons |-> {}])
    /\ UNCHANGED <<clock, smsVars, smsOtherVars>>

\* admitted, the provider request is sent
SendNowSend ==
    /\ send_now.pc = "idle"
    /\ SmsAdmitted
    /\ SmsCan.allowed
    /\ SMS_DEST_ATTEMPTS' = SmsCan.attempts
    /\ send_now' = [pc |-> "sending"]
    /\ SMS_ONE_SHOT_OPENING' =
           compose_sms_body(SMS_ONE_SHOT_OPENING, sms_runtime).left
    /\ ret' = None
    /\ UNCHANGED <<clock, next_sms_epoch_s, sms_interval_total_seconds,
                   sms_loop, smsSendFrame>>

\* client.messages.create returns a message to the request thread
SendNowSent ==
    /\ send_now.pc = "sending"
    /\ sent_by_provider
    /\ send_now' = [pc |-> "idle"]
    /\ ret' = None
    /\ UNCHANGED <<clock, next_sms_epoch_s, sms_interval_total_seconds,
                   sms_loop, voiceSide>>

\* client.messages.create raises in the request thread
SendNowFailed ==
    /\ send_now.pc = "sending"
    /\ send_failed
    /\ send_now' = [pc |-> "idle"]
    /\ ret' = Failed("api_texts_send_now", clock)
    /\ UNCHANGED <<clock, next_sms_epoch_s, sms_interval_total_seconds,
                   sms_loop, voiceSide>>

(***************************************************************************)
(* Spec: the two schedulers, the request threads and the provider.         *)
(***************************************************************************)
AlwaysOpen == Hours(0, 0, 23, 59)
NightOnly == Hours(0, 0, 0, 30)

\* voice configured, the smallest caps and interval the loaders allow;
\* SMS off, as SMSConfig leaves it
VoiceRuntime ==
    [DefaultRuntime EXCEPT !.active_hours_local = AlwaysOpen,
                           !.min_interval_seconds = 30,
                           !.max_interval_seconds = 30,
                           !.hourly_max_attempts = 1,
                           !.daily_max_attempts = 2]

\* SMS on with its own destination, the smallest caps and interval; it sends
\* from the voice number and keeps the voice hours unless it has its own
SmsRuntime ==
    [DefaultSmsRuntime EXCEPT !.enabled = TRUE,
                              !.min_interval_seconds = 60,
                              !.max_interval_seconds = 60,
                              !.hourly_max_attempts = 1,
                              !.daily_max_attempts = 2]

\* the configurations a behaviour starts from: the environment of the process
Configurations ==
    {<<VoiceRuntime, DefaultSmsRuntime>>,
     <<[VoiceRuntime EXCEPT !.direct_dial = FALSE], DefaultSmsRuntime>>,
     <<[VoiceRuntime EXCEPT !.active_hours_local = NightOnly], DefaultSmsRuntime>>,
     <<[VoiceRuntime EXCEPT !.public_base_url = ""], DefaultSmsRuntime>>,
     <<[VoiceRuntime EXCEPT !.public_base_url = "", !.direct_dial = FALSE],
       DefaultSmsRuntime>>,
     <<[VoiceRuntime EXCEPT !.to_number = ""], SmsRuntime>>,
     <<[VoiceRuntime EXCEPT !.to_number = ""],
       [SmsRuntime EXCEPT !.active_hours_local = NightOnly]>>,
     <<[VoiceRuntime EXCEPT !.to_number = ""],
       [SmsRuntime EXCEPT !.to_number = ""]>>,
     <<[VoiceRuntime EXCEPT !.to_number = "", !.public_base_url = ""],
       SmsRuntime>>}

Init ==
    /\ clock = 0
    /\ \E c \in Configurations : runtime = c[1] /\ sms_runtime = c[2]
    /\ dest_attempts = EmptyLedger
    /\ SMS_DEST_ATTEMPTS = EmptyLedger
    /\ ret = None
    /\ SchedulersIdle

\* a thread that is not asleep or waiting for a request
Busy ==
    \/ dialer.pc # "top"
    \/ call_now.pc # "idle"
    \/ sms_loop.pc # "top"
    \/ send_now.pc # "idle"

\* time passes: to the next instant, and while a thread is under way by no
\* more than a provider request can take
Advance ==
    /\ \E t \in ClockInstants :
          /\ t > clock
          /\ \A u \in ClockInstants : u > clock => t <= u
          /\ Busy => t - clock <= twilio_http_timeout_seconds
          /\ clock' = t
    /\ ret' = None
    /\ UNCHANGED <<runtime, sms_runtime, lockVars, stopVars, paramVars, engine, SMS_ONE_SHOT_OPENING, dest_attempts, SMS_DEST_ATTEMPTS,
                   voiceVars, smsVars, lifeVars>>

Next ==
    \/ Advance
    \/ DialerNoManual
    \/ DialerManualDenied
    \/ DialerManualCapped
    \/ DialerManualNotConfigured
    \/ DialerManualPlace
    \/ DialerCallAccepted
    \/ DialerCallFailed
    \/ DialerNotDue
    \/ DialerDeadlineDenied
    \/ DialerDeadlineCapped
    \/ DialerDeadlineNotConfigured
    \/ DialerDeadlinePlace
    \/ ApiCallNowRefused
    \/ ApiCallNowCapped
    \/ ApiCallNowNotConfigured
    \/ ApiCallNowPlace
    \/ ApiCallNowQueued
    \/ ApiCallNowAccepted
    \/ ApiCallNowFailed
    \/ \E sid \in 1..MaxCalls : CallProgress(sid)
    \/ \E sid \in 1..MaxCalls : StatusCompleted(sid)
    \/ \E sid \in 1..MaxCalls : StatusOtherFinal(sid)
    \/ SmsLoopDisabled
    \/ SmsLoopNotDue
    \/ SmsLoopDenied
    \/ SmsLoopCapped
    \/ SmsLoopSend
    \/ SmsLoopSent
    \/ SmsLoopSendFailed
    \/ SendNowDenied
    \/ SendNowCapped
    \/ SendNowSend
    \/ SendNowSent
    \/ SendNowFailed

Spec == Init /\ [][Next]_vars

(***************************************************************************)
(* Claims about the schedulers                                             *)
(***************************************************************************)
\* the calls the provider accepted and whose terminal callback is not handled
InFlight == {s \in 1..MaxCalls : calls[s] = "active"}

\* C1: voice channel, in every reachable state and under any interleaving of
\* dialer loop ticks, /api/call-now requests and status callbacks, at most
\* one call exists that the provider accepted and for which no terminal
\* callback has been processed.
C1_AtMostOneCallInFlight == Cardinality(InFlight) <= 1

\* the entries of a ledger that the trailing hour / the trailing day hold now
WithinBudget(attempts, rt) ==
    \A d \in Dests :
        /\ CountSince(attempts[d], clock - 3600) <= rt.hourly_max_attempts
        /\ CountSince(attempts[d], clock - 86400) <= rt.daily_max_attempts

\* C2: for every destination and every instant, the ledger entries of the
\* destination within the trailing 3600 seconds never exceed hourly_max and
\* those within the trailing 24 hours never exceed daily_max, under any
\* interleaving of the scheduler loop and concurrent manual requests.
C2_LedgerWithinBudget ==
    /\ WithinBudget(dest_attempts, runtime)
    /\ WithinBudget(SMS_DEST_ATTEMPTS, sms_runtime)

\* the multiset of the timestamps of lst within the last 24 hours
RecentBag(lst) ==
    LET recent == SelectSeq(lst, LAMBDA t : t >= clock - 86400)
    IN  [t \in Range(recent) |->
            Cardinality({i \in DOMAIN recent : recent[i] = t})]

IsDenied == ret.op = "denied"

\* C7: a denied attempt never adds a ledger entry: whenever the admission
\* sequence of a loop tick or of a manual request ends in denial, for any
\* reason, the multiset of ledger timestamps within the last 24 hours is for
\* every destination the same after the sequence as before it.
C7_DeniedAddsNoEntry ==
    IsDenied =>
        \A d \in Dests :
            /\ RecentBag(dest_attempts[d]) = RecentBag(ret.before[d])
            /\ RecentBag(SMS_DEST_ATTEMPTS[d]) = RecentBag(ret.sms_before[d])

\* a denial by the cap that found an entry older than an hour and younger than
\* a day beside the one that fills the hour
C7_Witness ==
    /\ IsDenied
    /\ ret.reason = "cap"
    /\ \E d \in Dests :
          \/ \E i \in DOMAIN ret.before[d] :
                /\ ret.before[d][i] < clock - 3600
                /\ ret.before[d][i] >= clock - 86400
          \/ \E i \in DOMAIN ret.sms_before[d] :
                /\ ret.sms_before[d][i] < clock - 3600
                /\ ret.sms_before[d][i] >= clock - 86400

IsFailed == ret.op = "placement_failed"

\* no call record, no history file and no ledger entry is new
NothingRecorded ==
    /\ CALL_META = ret.before.CALL_META
    /\ HISTORY = ret.before.HISTORY
    /\ dest_attempts = ret.before.dest_attempts
    /\ SMS_DEST_ATTEMPTS = ret.before.SMS_DEST_ATTEMPTS

\* the schedule of the failed thread's channel was armed at the thread's now
RearmedAtFailure ==
    IF ret.by \in {"_dialer_loop", "api_call_now"}
    THEN /\ next_call_epoch_s = ret.now + interval_total_seconds
         /\ interval_total_seconds \in Intervals
    ELSE /\ next_sms_epoch_s = ret.now + sms_interval_total_seconds
         /\ sms_interval_total_seconds \in SmsIntervals

ScheduleAsBefore ==
    IF ret.by \in {"_dialer_loop", "api_call_now"}
    THEN /\ next_call_epoch_s = ret.before.next_call_epoch_s
         /\ interval_total_seconds = ret.before.interval_total_seconds
    ELSE /\ next_sms_epoch_s = ret.before.next_sms_epoch_s
         /\ sms_interval_total_seconds = ret.before.sms_interval_total_seconds

RawVoiceIntervals == {<<10, 5>>, <<30, 32>>, <<31, 20>>, <<31, 33>>}
RawSmsIntervals == {<<10, 5>>, <<60, 62>>, <<61, 20>>, <<61, 63>>}

\* _load_runtime_from_env, _load_sms_runtime_from_env: the interval fields
load_intervals(rt, raw, floor) ==
    LET lo == Max2(floor, raw[1])
    IN  [rt EXCEPT !.min_interval_seconds = lo,
                   !.max_interval_seconds = Max2(lo, raw[2])]

InitSchedule ==
    /\ clock = 0
    /\ \E raw \in RawVoiceIntervals : runtime = load_intervals(DefaultRuntime, raw, 30)
    /\ \E raw \in RawSmsIntervals :
          sms_runtime = load_intervals(DefaultSmsRuntime, raw, 60)
    /\ dest_attempts = EmptyLedger
    /\ SMS_DEST_ATTEMPTS = EmptyLedger
    /\ ret = None
    /\ SchedulersIdle

\* _reset_schedule_after_completion(now), now the time of the caller
SResetSchedule ==
    /\ \E iv \in Intervals : reset_schedule_after_completion(clock, iv)
    /\ ret' = [op |-> "reset_schedule", now |-> clock]
    /\ UNCHANGED <<clock, runtime, sms_runtime, lockVars, stopVars, paramVars, engine, SMS_ONE_SHOT_OPENING, dest_attempts, SMS_DEST_ATTEMPTS,
                   CURRENT_CALL_SID, PENDING_UNTIL_TS, manual_call_requested,
                   dialer, call_now, calls, smsVars, lifeVars>>

\* _reset_sms_schedule_after_completion(now)
SResetSmsSchedule ==
    /\ \E iv \in SmsIntervals : reset_sms_schedule_after_completion(clock, iv)
    /\ ret' = [op |-> "reset_sms_schedule", now |-> clock]
    /\ UNCHANGED <<clock, runtime, sms_runtime, lockVars, stopVars, paramVars, engine, SMS_ONE_SHOT_OPENING, dest_attempts, SMS_DEST_ATTEMPTS,
                   voiceVars, sms_loop, send_now, lifeVars>>

SAdvance ==
    /\ \E t \in ClockInstants :
          /\ t > clock
          /\ \A u \in ClockInstants : u > clock => t <= u
          /\ clock' = t
    /\ ret' = None
    /\ UNCHANGED <<runtime, sms_runtime, lockVars, stopVars, paramVars, engine, SMS_ONE_SHOT_OPENING, dest_attempts, SMS_DEST_ATTEMPTS,
                   voiceVars, smsVars, lifeVars>>

NextSchedule == SAdvance \/ SResetSchedule \/ SResetSmsSchedule

SpecSchedule == InitSchedule /\ [][NextSchedule]_vars

\* next_deadline and interval_total after a re-arm at now, between the ends
\* min_s (the configured minimum raised to floor) and max_s >= min_s
Rearmed(now, next, total, min_configured, max_configured, floor) ==
    LET min_s == Max2(floor, min_configured)
        max_s == Max2(min_s, max_configured)
    IN  /\ now + min_s <= next
        /\ next <= now + max_s
        /\ next > now
        /\ total = next - now

\* C11: every re-arm of a channel's schedule with time argument now leaves
\* now + min_s <= next_deadline <= now + max_s, min_s being the configured
\* minimum raised to the channel floor (30 s voice, 60 s SMS) and max_s >=
\* min_s; next_deadline > now and interval_total = next_deadline - now.
C11_RearmWithinBounds ==
    /\ ret.op = "reset_schedule" =>
          Rearmed(ret.now, next_call_epoch_s, interval_total_seconds,
                  runtime.min_interval_seconds, runtime.max_interval_seconds, 30)
    /\ ret.op = "reset_sms_schedule" =>
          Rearmed(ret.now, next_sms_epoch_s, sms_interval_total_seconds,
                  sms_runtime.min_interval_seconds,
                  sms_runtime.max_interval_seconds, 60)

\* a voice re-arm after time has passed, the interval drawn strictly between
\* the ends
C11_Witness ==
    /\ ret.op = "reset_schedule"
    /\ ret.now > 0
    /\ runtime.min_interval_seconds < interval_total_seconds
    /\ interval_total_seconds < runtime.max_interval_seconds
    /\ next_sms_epoch_s # NoTs

(***************************************************************************)
(* SpecLifecycle: the notifications of the provider in any order and any   *)
(* number: /status, /voice, /hello, /transcribe-partial and /sms/status,   *)
(* for calls that _place_call_now placed and for a sid it never placed.    *)
(* The completed branch of status_callback takes its locks one after the   *)
(* other, so other handlers run between its steps; one completed callback  *)
(* is handled at a time.  Writes to the history directories succeed.       *)
(* Admission is Spec's: here a call is placed whenever the provider        *)
(* accepts one.  /dialog appends to the transcript as /hello does.         *)
(***************************************************************************)
\* a sid that no placement of this process returned
ForeignSid == MaxCalls + 1

CallbackSids == 1..ForeignSid

\* the provider notifies about calls it has, and about the foreign one
Notifiable(sid) == IF sid = ForeignSid THEN TRUE ELSE calls[sid] # "none"

\* the message sids /sms/status is called with
SmsCallbackSids == {SmSid(1), SmSid(2)}
\* MessageStatus, "" when the request has none
SmsStatuses == {"", "delivered", "failed"}

\* voice in use and SMS off, or SMS in use and no voice destination
LifeConfigurations ==
    {<<VoiceRuntime, DefaultSmsRuntime>>,
     <<[VoiceRuntime EXCEPT !.to_number = ""], SmsRuntime>>}

VoiceInUse == runtime.to_number # ""

InitLifecycle ==
    /\ clock = 100
    /\ \E c \in LifeConfigurations : runtime = c[1] /\ sms_runtime = c[2]
    /\ dest_attempts = EmptyLedger
    /\ SMS_DEST_ATTEMPTS = EmptyLedger
    /\ ret = None
    /\ SchedulersIdle

\* _append_transcript(call_sid, role, text, is_final) for a text that is not
\* empty; the text and the time of an entry are not kept
append_transcript(transcripts, sid, role, is_final) ==
    DictSet(transcripts, sid,
            Append(DictGet(transcripts, sid, << >>),
                   [role |-> role, final |-> is_final]))

RECURSIVE StoredEntries(_, _)
\* the entries a store of sequences holds for the sids 1..n
StoredEntries(d, n) ==
    IF n = 0 THEN 0 ELSE Len(DictGet(d, n, << >>)) + StoredEntries(d, n - 1)

\* the transcript entries in memory, and the history files written so far
TranscriptLen == StoredEntries(TRANSCRIPTS, ForeignSid)
Persists == StoredEntries(HISTORY, ForeignSid)

lifeFrame == <<clock, runtime, sms_runtime, lockVars, stopVars, paramVars, engine, SMS_ONE_SHOT_OPENING, SMS_DEST_ATTEMPTS,
               manual_call_requested, dialer, call_now, smsVars>>

\* _place_call_now from client.calls.create on, the provider accepting
LPlaced ==
    /\ VoiceInUse
    /\ ProviderCanAccept
    /\ FreshSid <= MaxLifeCalls
    /\ placed_by_provider
    /\ ret' = None
    /\ UNCHANGED <<lifeFrame, CURRENT_CALL_SID, next_call_epoch_s,
                   interval_total_seconds>>

\* /status with initiated, ringing, in-progress or answered; /voice
LCallProgress(sid) ==
    /\ VoiceInUse
    /\ Notifiable(sid)
    /\ CURRENT_CALL_SID' = sid
    /\ PENDING_UNTIL_TS' = NoTs
    /\ CALL_META' = init_call_meta_if_absent(CALL_META, sid,
           BeginArgs(runtime.to_number, runtime.from_number, clock))
    /\ ret' = None
    /\ UNCHANGED <<lifeFrame, dest_attempts, calls, next_call_epoch_s,
                   interval_total_seconds, TRANSCRIPTS, HISTORY, SMS_HISTORY,
                   status_handler>>

\* /hello: the callee's speech, if any, and the opening line
LHello(sid, spoke) ==
    /\ VoiceInUse
    /\ Notifiable(sid)
    /\ TranscriptLen + (IF spoke THEN 2 ELSE 1) <= MaxTranscript
    /\ CURRENT_CALL_SID' = sid
    /\ PENDING_UNTIL_TS' = NoTs
    /\ CALL_META' = init_call_meta_if_absent(CALL_META, sid,
           BeginArgs(runtime.to_number, runtime.from_number, clock))
    /\ TRANSCRIPTS' =
          append_transcript(IF spoke
                            THEN append_transcript(TRANSCRIPTS, sid, "Callee", TRUE)
                            ELSE TRANSCRIPTS,
                            sid, "Assistant", TRUE)
    /\ ret' = None
    /\ UNCHANGED <<lifeFrame, dest_attempts, calls, next_call_epoch_s,
                   interval_total_seconds, HISTORY, SMS_HISTORY, status_handler>>

\* /transcribe-partial with a CallSid: part tells whether it carries text
LTranscribePartial(sid, part) ==
    /\ VoiceInUse
    /\ Notifiable(sid)
    /\ part => TranscriptLen < MaxTranscript
    /\ CURRENT_CALL_SID' = sid
    /\ TRANSCRIPTS' = IF part
                      THEN append_transcript(TRANSCRIPTS, sid, "Callee", FALSE)
                      ELSE TRANSCRIPTS
    /\ ret' = None
    /\ UNCHANGED <<lifeFrame, dest_attempts, calls, PENDING_UNTIL_TS,
                   next_call_epoch_s, interval_total_seconds, CALL_META,
                   HISTORY, SMS_HISTORY, status_handler>>

\* /status with busy, failed, no-answer or canceled: nothing is done
LStatusOtherFinal(sid) ==
    /\ VoiceInUse
    /\ Notifiable(sid)
    /\ ret' = None
    /\ UNCHANGED <<lifeFrame, dest_attempts, voiceVars, lifeVars>>

(* ------------- /status with completed, lock by lock ------------------- *)
\* _set_current_call_sid(None), _clear_outgoing_pending, then under
\* _CALL_META_LOCK the record is made or completed
LCompletedStart(sid) ==
    /\ VoiceInUse
    /\ Notifiable(sid)
    /\ status_handler.pc = "idle"
    /\ Persists < MaxPersists
    /\ CURRENT_CALL_SID' = NoSid
    /\ PENDING_UNTIL_TS' = NoTs
    /\ \E dur \in Durations :
          CALL_META' = complete_call_meta(CALL_META, sid, clock, dur)
    /\ status_handler' = [pc |-> "persist", sid |-> sid, now |-> clock,
                          begun |-> sid \in DOMAIN CALL_META,
                          events |-> DictGet(TRANSCRIPTS, sid, << >>)]
    /\ ret' = None
    /\ UNCHANGED <<lifeFrame, dest_attempts, calls, next_call_epoch_s,
                   interval_total_seconds, TRANSCRIPTS, HISTORY, SMS_HISTORY>>

\* _persist_call_history(call_sid)
LCompletedPersist ==
    /\ status_handler.pc = "persist"
    /\ HISTORY' = persist_call_history(HISTORY, CALL_META, TRANSCRIPTS,
                                       status_handler.sid)
    /\ status_handler' = [status_handler EXCEPT !.pc = "pop"]
    /\ ret' = None
    /\ UNCHANGED <<lifeFrame, dest_attempts, voiceVars, CALL_META, TRANSCRIPTS,
                   SMS_HISTORY>>

\* _TRANSCRIPTS.pop(call_sid, None)
LCompletedPop ==
    /\ status_handler.pc = "pop"
    /\ TRANSCRIPTS' = DictPop(TRANSCRIPTS, status_handler.sid)
    /\ status_handler' = [status_handler EXCEPT !.pc = "reset"]
    /\ ret' = None
    /\ UNCHANGED <<lifeFrame, dest_attempts, voiceVars, CALL_META, HISTORY,
                   SMS_HISTORY>>

\* _reset_schedule_after_completion(now); the handler returns 204
LCompletedReturn ==
    /\ status_handler.pc = "reset"
    /\ \E iv \in Intervals :
          reset_schedule_after_completion(status_handler.now, iv)
    /\ status_handler' = [pc |-> "idle"]
    /\ ret' = [op |-> "status_completed", sid |-> status_handler.sid,
               begun |-> status_handler.begun]
    /\ UNCHANGED <<lifeFrame, dest_attempts, calls, CURRENT_CALL_SID,
                   PENDING_UNTIL_TS, CALL_META, TRANSCRIPTS, HISTORY,
                   SMS_HISTORY>>

(* ------------------------- /sms/status -------------------------------- *)
\* sms_status_callback: the record is loaded or made, its status set when
\* the request has one, and written
LSmsStatus(sid, status) ==
    /\ sms_runtime.enabled
    /\ SMS_HISTORY' =
          persist_sms_history(SMS_HISTORY, sid,
              IF status # "" THEN status
              ELSE DictGet(SMS_HISTORY, sid, [status |-> ""]).status)
    /\ ret' = [op |-> "sms_status", sid |-> sid,
               begun |-> sid \in DOMAIN SMS_HISTORY]
    /\ UNCHANGED <<lifeFrame, dest_attempts, voiceVars, CALL_META, TRANSCRIPTS,
                   HISTORY, status_handler>>

NextLifecycle ==
    \/ LPlaced
    \/ \E sid \in CallbackSids : LCallProgress(sid)
    \/ \E sid \in CallbackSids, spoke \in BOOLEAN : LHello(sid, spoke)
    \/ \E sid \in CallbackSids, part \in BOOLEAN : LTranscribePartial(sid, part)
    \/ \E sid \in CallbackSids : LStatusOtherFinal(sid)
    \/ \E sid \in CallbackSids : LCompletedStart(sid)
    \/ LCompletedPersist
    \/ LCompletedPop
    \/ LCompletedReturn
    \/ \E sid \in SmsCallbackSids, status \in SmsStatuses : LSmsStatus(sid, status)

SpecLifecycle == InitLifecycle /\ [][NextLifecycle]_vars

(***************************************************************************)
(* Lifecycle claims                                                        *)
(***************************************************************************)
\* the completed handler has returned for a sid that had no record when the
\* handler started
CompletedUnbegun == ret.op = "status_completed" /\ ~ret.begun
SmsStatusUnbegun == ret.op = "sms_status" /\ ~ret.begun

\* a history file of the sid holds a record with the completion fields
PersistedCompleted(sid) ==
    /\ sid \in DOMAIN HISTORY
    /\ \E i \in 1..Len(HISTORY[sid]) :
          {"completed_at", "duration_seconds"} \subseteq DOMAIN HISTORY[sid][i].meta

\* C14: a completed callback for a sid without a record leaves, when the
\* handler returns, a record of the sid with the completion fields in the
\* store and in a history file of the sid; an SMS status callback for a
\* message sid without a file leaves a file of that sid.
C14_UnknownSidRecorded ==
    /\ CompletedUnbegun =>
          /\ status_handler.pc = "idle"
          /\ ret.sid \in DOMAIN CALL_META
          /\ {"completed_at", "duration_seconds"} \subseteq DOMAIN CALL_META[ret.sid]
          /\ PersistedCompleted(ret.sid)
    /\ SmsStatusUnbegun => ret.sid \in DOMAIN SMS_HISTORY

C14_Witness == CompletedUnbegun /\ ret.sid = ForeignSid /\ TRANSCRIPTS = EmptyDict

\* the record of the sid in the store says the call is completed
Completed(sid) ==
    sid \in DOMAIN CALL_META /\ "completed_at" \in DOMAIN CALL_META[sid]

\* C15 (refuted by the code): once the completed callback of a sid has been
\* processed and the sid is not the current call sid, no step makes it the
\* current call sid.
C15_CompletedNeverCurrent ==
    [][\A sid \in CallbackSids :
          (Completed(sid) /\ status_handler.pc = "idle" /\ CURRENT_CALL_SID # sid)
              => CURRENT_CALL_SID' # sid]_vars

\* C16 (refuted by the code): no sid has its history file written more than
\* once.
C16_PersistedOnce ==
    \A sid \in DOMAIN HISTORY : Len(HISTORY[sid]) <= 1

IsPrefix(a, b) == Len(a) <= Len(b) /\ SubSeq(b, 1, Len(a)) = a

\* a history file of the sid was written with these transcript entries
Handed(sid, events) ==
    /\ sid \in DOMAIN HISTORY
    /\ \E i \in 1..Len(HISTORY[sid]) :
          /\ IsPrefix(events, HISTORY[sid][i].transcript)
          /\ "completed_at" \in DOMAIN HISTORY[sid][i].meta

\* the completed handler of a sid that had transcript entries is running
\* and the sid has no transcript in memory
Evicted ==
    /\ status_handler.pc # "idle"
    /\ status_handler.events # << >>
    /\ status_handler.sid \notin DOMAIN TRANSCRIPTS

\* C17: while the completed handler of a sid runs, the transcript of the
\* sid is gone from memory only if a history file of the sid was written
\* with the completion fields and the entries the transcript had when the
\* handler started.
C17_PersistBeforeEvict ==
    Evicted => Handed(status_handler.sid, status_handler.events)

C17_Witness == Evicted /\ status_handler.pc = "reset"

(***************************************************************************)
(* Manual trigger claims, under Spec                                       *)
(***************************************************************************)
\* the dialer loop starts an iteration with the manual flag set
ManualService ==
    manual_call_requested /\ dialer.pc = "top" /\ dialer' # dialer

\* C18: the manual flag is one boolean. A queued request leaves it set,
\* also when it was set already; the loop iteration that finds it set
\* clears it and takes one admission decision, going on to the deadline
\* test or into one provider request; and the loop enters the provider
\* request of the manual branch only in a step that clears a set flag.
C18_SingleSlot ==
    [][/\ ret'.op = "queued" => manual_call_requested'
       /\ ManualService =>
             /\ ~manual_call_requested'
             /\ dialer'.pc \in {"deadline", "manual_call"}
       /\ (dialer.pc # "manual_call" /\ dialer'.pc = "manual_call") =>
             manual_call_requested /\ ~manual_call_requested']_vars

\* a second request was queued while the flag of the first was still set
\* and the loop is about to start an iteration
C18_Witness ==
    ret.op = "queued" /\ ret.already /\ manual_call_requested /\ dialer.pc = "top"

Openings == {"", "Hi"}

StatusConfigurations ==
    {<<VoiceRuntime, DefaultSmsRuntime>>,
     <<[VoiceRuntime EXCEPT !.to_number = ""], SmsRuntime>>,
     <<[VoiceRuntime EXCEPT !.to_number = ""],
       [SmsRuntime EXCEPT !.template = "T"]>>}

InitStatus ==
    /\ clock = 0
    /\ \E c \in StatusConfigurations : runtime = c[1] /\ sms_runtime = c[2]
    /\ dest_attempts = EmptyLedger
    /\ SMS_DEST_ATTEMPTS = EmptyLedger
    /\ ret = None
    /\ SchedulersIdle

\* api_texts_next_opening
ApiTextsNextOpening(text) ==
    /\ sms_runtime.enabled
    /\ SMS_ONE_SHOT_OPENING' = IF text = "" THEN SMS_ONE_SHOT_OPENING ELSE text
    /\ ret' = None
    /\ UNCHANGED <<clock, runtime, sms_runtime, lockVars, stopVars, paramVars, engine, dest_attempts, SMS_DEST_ATTEMPTS,
                   voiceVars, smsVars, lifeVars>>

\* api_status: the counts are read from a copy of the list, then
\* _can_attempt is called for the destination
ApiStatus ==
    /\ dest_attempts' = IF runtime.to_number # "" THEN Can(clock).attempts
                        ELSE dest_attempts
    /\ ret' = None
    /\ UNCHANGED <<clock, runtime, sms_runtime, lockVars, stopVars, paramVars, engine, SMS_ONE_SHOT_OPENING,
                   SMS_DEST_ATTEMPTS, voiceVars, smsVars, lifeVars>>

\* api_texts_status: _sms_can_attempt for the destination, and
\* template_preview = _sms_runtime.template or _compose_sms_body()
ApiTextsStatus ==
    /\ SMS_DEST_ATTEMPTS' = IF sms_runtime.to_number # "" THEN SmsCan.attempts
                            ELSE SMS_DEST_ATTEMPTS
    /\ SMS_ONE_SHOT_OPENING' =
          IF sms_runtime.template # "" THEN SMS_ONE_SHOT_OPENING
          ELSE compose_sms_body(SMS_ONE_SHOT_OPENING, sms_runtime).left
    /\ ret' = None
    /\ UNCHANGED <<clock, runtime, sms_runtime, lockVars, stopVars, paramVars, engine, dest_attempts, voiceVars,
                   smsVars, lifeVars>>

NextStatus ==
    \/ Advance
    \/ DialerNoManual
    \/ DialerCallAccepted
    \/ DialerCallFailed
    \/ DialerNotDue
    \/ DialerDeadlineDenied
    \/ DialerDeadlineCapped
    \/ DialerDeadlinePlace
    \/ \E sid \in 1..MaxCalls : CallProgress(sid)
    \/ \E sid \in 1..MaxCalls : StatusCompleted(sid)
    \/ \E sid \in 1..MaxCalls : StatusOtherFinal(sid)
    \/ SmsLoopDisabled
    \/ SmsLoopNotDue
    \/ SmsLoopSend
    \/ SmsLoopSent
    \/ SmsLoopSendFailed
    \/ \E text \in Openings : ApiTextsNextOpening(text)
    \/ ApiStatus
    \/ ApiTextsStatus

SpecStatus == InitStatus /\ [][NextStatus]_vars

\* C20 (refuted by the code): a status query leaves the ledgers, the
\* lifecycle stores, the current call sid, the schedules and the one-shot
\* opening as they are.
C20_StatusQueryFrame ==
    [][(ApiStatus \/ ApiTextsStatus) =>
          /\ dest_attempts' = dest_attempts
          /\ SMS_DEST_ATTEMPTS' = SMS_DEST_ATTEMPTS
          /\ lifeVars' = lifeVars
          /\ CURRENT_CALL_SID' = CURRENT_CALL_SID
          /\ next_call_epoch_s' = next_call_epoch_s
          /\ next_sms_epoch_s' = next_sms_epoch_s
          /\ SMS_ONE_SHOT_OPENING' = SMS_ONE_SHOT_OPENING]_vars

(***************************************************************************)
(* Placement claims, under Spec                                            *)
(***************************************************************************)
\* a thread is inside client.calls.create, or the provider has a call
VoiceProviderContacted ==
    \/ dialer.pc \in {"manual_call", "deadline_call"}
    \/ call_now.pc = "calling"
    \/ \E s \in 1..MaxCalls : calls[s] # "none"

\* a thread is inside client.messages.create, or a send left its record
SmsProviderContacted ==
    \/ sms_loop.pc = "sending"
    \/ send_now.pc = "sending"
    \/ SMS_HISTORY # EmptyDict

CheckOrder == <<"configuration", "window", "in_flight", "cap">>

\* the checks that fail for a voice attempt in this state
FailingChecks ==
    (IF ~Ready THEN {"configuration"} ELSE {})
    \cup (IF ~WindowOpen THEN {"window"} ELSE {})
    \cup (IF CURRENT_CALL_SID # NoSid \/ Pending.pending THEN {"in_flight"} ELSE {})
    \cup (IF runtime.to_number # "" /\ ~Can(clock).allowed THEN {"cap"} ELSE {})

\* the checks that fail for an SMS attempt in this state
SmsFailingChecks ==
    (IF ~sms_configured(sms_runtime, runtime) THEN {"configuration"} ELSE {})
    \cup (IF ~SmsWindowOpen THEN {"window"} ELSE {})
    \cup (IF sms_runtime.to_number # "" /\ ~SmsCan.allowed THEN {"cap"} ELSE {})

FirstFailing(failing) ==
    CheckOrder[CHOOSE i \in 1..4 :
                  /\ CheckOrder[i] \in failing
                  /\ \A j \in 1..(i - 1) : CheckOrder[j] \notin failing]

\* the checks an answer names
Reported(answer) ==
    CASE answer.reason \in {"not_ready", "missing_destination", "disabled",
                            "Twilio client missing", "Missing SMS TO or FROM"}
             -> {"configuration"}
      [] answer.reason \in {"outside_active_window", "Outside active SMS window"}
             -> {"window"}
      [] answer.reason \in {"already_in_progress", "pending"} -> {"in_flight"}
      [] answer.reason \in {"cap_reached", "Cap reached"} -> {"cap"}
      [] OTHER -> {}

\* a request handler has refused before any provider request
RefusedBy(by) ==
    IsDenied /\ ret.by = by /\ ret.reason \in {"admission", "cap"}

OnlyFirstCallActive ==
    calls[1] = "active" /\ \A s \in 2..MaxCalls : calls[s] = "none"

\* what denies a voice admission for an attempt in flight
CountsInFlight == CURRENT_CALL_SID # NoSid \/ Pending.pending

\* C23 (refuted by the code): while the one call placed has had no terminal
\* callback, the voice channel counts as in flight.
C23_InFlightUntilTerminal == OnlyFirstCallActive => CountsInFlight

\* C24 (refuted by the code): a terminal callback for the call that is the
\* current call sid clears the current call sid and re-arms the schedule
\* from the time of the callback.
C24_TerminalClearsInFlight ==
    [][\A sid \in 1..MaxCalls :
          (calls[sid] = "active" /\ calls'[sid] = "done" /\ CURRENT_CALL_SID = sid)
              => /\ CURRENT_CALL_SID' = NoSid
                 /\ next_call_epoch_s' \in {clock + iv : iv \in Intervals}]_vars

(***************************************************************************)
(* SpecParams: the call parameters (voice persona, dialog variant) that    *)
(* _place_call_now, /voice and /hello keep under _PARAMS_LOCK.  The other  *)
(* specifications leave them as the module has them at import.  The lock   *)
(* is taken with a timeout of ten seconds, which no thread holds it for.   *)
(***************************************************************************)
\* len(_DIALOGS)
NumDialogs == 6

\* the selections of a behaviour
MaxSelections == 4

\* _select_next_call_params_locked(): the counter, the index and the params
select_next_call_params(count, last) ==
    [count  |-> count + 1,
     last   |-> (last + 1) % NumDialogs,
     params |-> [voice      |-> IF (count + 1) % 2 = 1 THEN "man" ELSE "woman",
                 dialog_idx |-> (last + 1) % NumDialogs]]

\* _assign_params_to_sid(sid) for a sid that is not empty
assign_params_to_sid(sid) ==
    LET sel == select_next_call_params(PLACED_CALL_COUNT, LAST_DIALOG_IDX)
        fresh == PENDING_CALL_PARAMS = NoParams
        pending == IF fresh THEN sel.params ELSE PENDING_CALL_PARAMS
    IN  /\ fresh => PLACED_CALL_COUNT < MaxSelections
        /\ PLACED_CALL_COUNT' = IF fresh THEN sel.count ELSE PLACED_CALL_COUNT
        /\ LAST_DIALOG_IDX' = IF fresh THEN sel.last ELSE LAST_DIALOG_IDX
        /\ CALL_PARAMS_BY_SID' = DictSet(CALL_PARAMS_BY_SID, sid, pending)
        /\ PENDING_CALL_PARAMS' = NoParams

\* _get_params_for_sid(sid); "V" stands for _runtime.tts_voice or "man"
get_params_for_sid(sid) ==
    DictGet(CALL_PARAMS_BY_SID, sid, [voice |-> "V", dialog_idx |-> 0])

InitParams ==
    /\ clock = 100
    /\ runtime = VoiceRuntime
    /\ sms_runtime = DefaultSmsRuntime
    /\ dest_attempts = EmptyLedger
    /\ SMS_DEST_ATTEMPTS = EmptyLedger
    /\ ret = None
    /\ SchedulersIdle

paramsFrame == <<clock, runtime, sms_runtime, lockVars, stopVars, engine, SMS_ONE_SHOT_OPENING,
                 SMS_DEST_ATTEMPTS, manual_call_requested, call_now, smsVars>>

\* _place_call_now up to client.calls.create: the guard, then
\* _prepare_params_for_next_call
PPrepare ==
    /\ dialer.pc = "top"
    /\ place_configured(runtime)
    /\ ProviderCanAccept
    /\ PLACED_CALL_COUNT < MaxSelections
    /\ LET sel == select_next_call_params(PLACED_CALL_COUNT, LAST_DIALOG_IDX)
       IN  /\ PENDING_CALL_PARAMS' = sel.params
           /\ PLACED_CALL_COUNT' = sel.count
           /\ LAST_DIALOG_IDX' = sel.last
    /\ dialer' = [pc |-> "deadline_call", now |-> clock]
    /\ ret' = None
    /\ UNCHANGED <<paramsFrame, CALL_PARAMS_BY_SID, dest_attempts, calls,
                   CURRENT_CALL_SID, PENDING_UNTIL_TS, next_call_epoch_s,
                   interval_total_seconds, lifeVars>>

\* client.calls.create returns a call: _note_attempt, _mark_outgoing_pending,
\* _assign_params_to_sid, _init_call_meta_if_absent
PCallAccepted ==
    /\ dialer.pc = "deadline_call"
    /\ placed_by_provider
    /\ assign_params_to_sid(FreshSid)
    /\ dialer' = [pc |-> "top", now |-> 0]
    /\ ret' = [op |-> "placed", sid |-> FreshSid]
    /\ UNCHANGED <<paramsFrame, CURRENT_CALL_SID, next_call_epoch_s,
                   interval_total_seconds>>

\* client.calls.create raises: the prepared params stay pending
PCallFailed ==
    /\ dialer.pc = "deadline_call"
    /\ \E iv \in Intervals : reset_schedule_after_completion(dialer.now, iv)
    /\ dialer' = [pc |-> "top", now |-> 0]
    /\ ret' = None
    /\ UNCHANGED <<paramsFrame, paramVars, dest_attempts, calls,
                   CURRENT_CALL_SID, PENDING_UNTIL_TS, lifeVars>>

\* /voice with a CallSid
PVoice(sid) ==
    /\ calls[sid] = "active"
    /\ CURRENT_CALL_SID' = sid
    /\ PENDING_UNTIL_TS' = NoTs
    /\ assign_params_to_sid(sid)
    /\ CALL_META' = init_call_meta_if_absent(CALL_META, sid,
           BeginArgs(runtime.to_number, runtime.from_number, clock))
    /\ ret' = [op |-> "voice", sid |-> sid]
    /\ UNCHANGED <<paramsFrame, dialer, dest_attempts, calls,
                   next_call_epoch_s, interval_total_seconds, TRANSCRIPTS,
                   HISTORY, SMS_HISTORY, status_handler>>

\* /hello with a CallSid: the callee's speech, if any, and the opening line
PHello(sid, spoke) ==
    /\ calls[sid] = "active"
    /\ TranscriptLen + (IF spoke THEN 2 ELSE 1) <= MaxTranscript
    /\ CURRENT_CALL_SID' = sid
    /\ PENDING_UNTIL_TS' = NoTs
    /\ assign_params_to_sid(sid)
    /\ CALL_META' = init_call_meta_if_absent(CALL_META, sid,
           BeginArgs(runtime.to_number, runtime.from_number, clock))
    /\ TRANSCRIPTS' =
          append_transcript(IF spoke
                            THEN append_transcript(TRANSCRIPTS, sid, "Callee", TRUE)
                            ELSE TRANSCRIPTS,
                            sid, "Assistant", TRUE)
    /\ ret' = [op |-> "hello", sid |-> sid]
    /\ UNCHANGED <<paramsFrame, dialer, dest_attempts, calls,
                   next_call_epoch_s, interval_total_seconds, HISTORY,
                   SMS_HISTORY, status_handler>>

\* /dialog with a CallSid: the reply is said in the voice of
\* _get_params_for_sid, which only reads
PDialog(sid) ==
    /\ calls[sid] = "active"
    /\ TranscriptLen < MaxTranscript
    /\ TRANSCRIPTS' = append_transcript(TRANSCRIPTS, sid, "Assistant", TRUE)
    /\ ret' = [op |-> "dialog", sid |-> sid, params |-> get_params_for_sid(sid)]
    /\ UNCHANGED <<paramsFrame, paramVars, dialer, dest_attempts, calls,
                   CURRENT_CALL_SID, PENDING_UNTIL_TS, next_call_epoch_s,
                   interval_total_seconds, CALL_META, HISTORY, SMS_HISTORY,
                   status_handler>>

NextParams ==
    \/ PPrepare
    \/ PCallAccepted
    \/ PCallFailed
    \/ \E sid \in 1..MaxCalls : PVoice(sid)
    \/ \E sid \in 1..MaxCalls : \E spoke \in BOOLEAN : PHello(sid, spoke)
    \/ \E sid \in 1..MaxCalls : PDialog(sid)
    \/ \E sid \in 1..MaxCalls : CallProgress(sid)
    \/ \E sid \in 1..MaxCalls : StatusCompleted(sid)

SpecParams == InitParams /\ [][NextParams]_vars

(***************************************************************************)
(* C25: the params stored for a sid stay what the placement stored,        *)
(* through every later /voice, /hello, /dialog and /status of the sid.     *)
(* No step replaces or removes the params a sid has.                       *)
(***************************************************************************)
C25_ParamsFixedAtPlacement ==
    [][\A sid \in DOMAIN CALL_PARAMS_BY_SID :
          /\ sid \in DOMAIN CALL_PARAMS_BY_SID'
          /\ CALL_PARAMS_BY_SID'[sid] = CALL_PARAMS_BY_SID[sid]]_vars


(***************************************************************************)
(* SpecEngine: the reply generator of conversation_engine.py, one engine   *)
(* as _get_engine_for_sid makes it for a call.  A text is the sequence of  *)
(* its words; the words have no punctuation.  No template is longer than   *)
(* max_response_chars (160), so a response is never cut.                   *)
(***************************************************************************)
\* the turns of an engine
MaxTurns == 4

\* str.lower() on the words of Texts
Lower(w) == IF w = "Hello" THEN "hello" ELSE w

\* _normalize(text): the tokens, of which norm_str is the join
normalize(text) == [i \in 1..Len(text) |-> Lower(text[i])]

\* _TOKEN_TO_INTENT
TOKEN_TO_INTENT ==
    "hello" :> "greeting" @@ "hi" :> "greeting" @@ "hey" :> "greeting" @@
    "bye" :> "goodbye" @@ "goodbye" :> "goodbye" @@ "thanks" :> "thanks" @@
    "thank" :> "thanks" @@ "yes" :> "affirm" @@ "yeah" :> "affirm" @@
    "yep" :> "affirm" @@ "sure" :> "affirm" @@ "correct" :> "affirm" @@
    "right" :> "affirm" @@ "no" :> "deny" @@ "nope" :> "deny" @@ "nah" :> "deny" @@
    "angry" :> "angry" @@ "upset" :> "angry" @@ "mad" :> "angry" @@
    "frustrated" :> "angry" @@ "complaint" :> "angry" @@ "complain" :> "angry" @@
    "help" :> "help_request" @@ "assist" :> "help_request" @@
    "support" :> "help_request" @@ "appointment" :> "availability_schedule" @@
    "schedule" :> "availability_schedule" @@
    "available" :> "availability_schedule"

\* _PHRASES_ORDERED, each phrase as its words
PHRASES_ORDERED ==
    <<
      <<<<"good", "morning">>, "greeting">>,
      <<<<"good", "afternoon">>, "greeting">>,
      <<<<"good", "evening">>, "greeting">>,
      <<<<"see", "you">>, "goodbye">>,
      <<<<"how", "are", "you">>, "how_are_you">>,
      <<<<"how", "r", "u">>, "how_are_you">>,
      <<<<"how", "you", "doing">>, "how_are_you">>,
      <<<<"who", "is", "this">>, "identify_request">>,
      <<<<"who", "are", "you">>, "identify_request">>,
      <<<<"your", "name">>, "identify_request">>,
      <<<<"hold", "on">>, "hold_request">>,
      <<<<"one", "moment">>, "hold_request">>,
      <<<<"give", "me", "a", "second">>, "hold_request">>,
      <<<<"wait">>, "hold_request">>,
      <<<<"say", "again">>, "repeat_request">>,
      <<<<"did", "not", "hear">>, "repeat_request">>,
      <<<<"didn't", "hear">>, "repeat_request">>,
      <<<<"pardon">>, "repeat_request">>,
      <<<<"what", "time">>, "availability_schedule">>,
      <<<<"not", "really">>, "deny">>
    >>

\* len(intent) of the intents, and of the empty last_intent of a new engine
IntentLen(intent) ==
    IF intent = "" THEN 0
    ELSE [
     greeting |-> 8, goodbye |-> 7, thanks |-> 6, affirm |-> 6, deny |-> 4,
     how_are_you |-> 11, identify_request |-> 16, hold_request |-> 12,
     help_request |-> 12, availability_schedule |-> 21,
     repeat_request |-> 14, angry |-> 5, silence_or_empty |-> 16,
     fallback |-> 8
         ][intent]

\* _TEMPLATES: per intent the choices of the levels 1..5
TEMPLATES ==
    [
     greeting |->
      <<
        <<"Hello. How may I help you?",
          "Hello. How may I assist you today?",
          "Hello. What can I do for you?">>,
        <<"Hello. How can I help?",
          "Hello. What do you need?",
          "Hello. How may I assist?">>,
        <<"Hello. What do you need?",
          "Hello. State what you need.",
          "Hello. How can I help right now?">>,
        <<"Hello. State your request.",
          "Hello. Keep it brief.",
          "Hello. Say what you need, then stop.">>,
        <<"Hello. Speak your request now.",
          "Hello. Be direct and fast.",
          "Hello. No small talk. What do you want?">>
      >>,
     goodbye |->
      <<
        <<"Thank you for your time. Goodbye.",
          "Thank you. Goodbye.">>,
        <<"Goodbye.",
          "That concludes this call. Goodbye.">>,
        <<"Goodbye.",
          "We are done here. Goodbye.">>,
        <<"Goodbye. End of call.",
          "That is all. Goodbye.">>,
        <<"We are done. Goodbye.",
          "Goodbye. End this call now.">>
      >>,
     thanks |->
      <<
        <<"You are welcome.",
          "Glad to help.">>,
        <<"You are welcome.",
          "Understood.">>,
        <<"Understood.",
          "Noted.">>,
        <<"Noted.",
          "Acknowledged.">>,
        <<"Noted.",
          "Acknowledged.">>
      >>,
     affirm |->
      <<
        <<"Understood. Thank you.",
          "Understood.">>,
        <<"Understood.",
          "Noted.">>,
        <<"Understood.",
          "Proceed.">>,
        <<"Noted.",
          "Proceed.">>,
        <<"Noted.",
          "Proceed.">>
      >>,
     deny |->
      <<
        <<"Understood. Thank you for clarifying.",
          "Understood.">>,
        <<"Understood.",
          "Noted.">>,
        <<"Understood.",
          "Noted.">>,
        <<"Noted.",
          "Then say what you do want.">>,
        <<"Noted.",
          "Then state what you want, clearly.">>
      >>,
     how_are_you |->
      <<
        <<"I am well. How may I assist you?",
          "I am well. How can I help?">>,
        <<"I am well. How can I help?",
          "I am fine. How may I assist?">>,
        <<"I am fine. What do you need?",
          "I am fine. What is the issue?">>,
        <<"Fine. What is your request?",
          "Fine. Say what you need.">>,
        <<"Fine. What do you want?",
          "Fine. Get to the point.">>
      >>,
     identify_request |->
      <<
        <<"This is the service line. How may I assist you?",
          "This is the service line. How can I help?">>,
        <<"Service line. How can I help?",
          "Service line. What do you need?">>,
        <<"Service line. What do you need?",
          "Service line. State the issue.">>,
        <<"Service line. State your request.",
          "Service line. Keep it short.">>,
        <<"Service line. Make it brief.",
          "Service line. Be direct.">>
      >>,
     hold_request |->
      <<
        <<"Certainly. I will hold.",
          "Yes, I will wait.">>,
        <<"I will hold.",
          "I will wait.">>,
        <<"I will wait.",
          "I will hold briefly.">>,
        <<"I will wait briefly.",
          "Make it quick.">>,
        <<"Be quick.",
          "Do not take long.">>
      >>,
     help_request |->
      <<
        <<"Please describe the issue and I will assist.",
          "Please tell me what you need.">>,
        <<"Please tell me what you need.",
          "Describe the issue.">>,
        <<"State the issue.",
          "Explain the problem.">>,
        <<"Describe the issue. Keep it short.",
          "Start with the main problem.">>,
        <<"Get to the point.",
          "State the problem in one sentence.">>
      >>,
     availability_schedule |->
      <<
        <<"What time is convenient for you?",
          "What time works for you?">>,
        <<"What time works for you?",
          "Suggest a time.">>,
        <<"Suggest a time.",
          "Name a time that works.">>,
        <<"Provide a time.",
          "Pick a time and say it.">>,
        <<"Give a time.",
          "Say a time now.">>
      >>,
     repeat_request |->
      <<
        <<"Certainly. What should I repeat?",
          "What would you like me to repeat?">>,
        <<"What should I repeat?",
          "Repeat which part?">>,
        <<"Repeat which part?",
          "What do you need repeated?">>,
        <<"Specify what to repeat.",
          "Which part should I repeat?">>,
        <<"Be specific.",
          "Which part, precisely?">>
      >>,
     angry |->
      <<
        <<"I understand your concern. Please share details so I can help.",
          "I understand. Please explain the issue.">>,
        <<"I understand. Provide details.",
          "I understand. Explain the problem.">>,
        <<"I understand. State the issue.",
          "Explain the problem directly.">>,
        <<"State the issue clearly.",
          "Give the facts. No extra detail.">>,
        <<"State the problem now.",
          "Say the problem clearly, now.">>
      >>,
     silence_or_empty |->
      <<
        <<"I did not receive any speech. Please repeat your message.",
          "I did not hear you. Please speak again.">>,
        <<"No input detected. Please speak again.",
          "I did not hear anything. Please say that again.">>,
        <<"I did not hear anything. Please say that again.",
          "Please repeat your message.">>,
        <<"No input captured. Repeat your message.",
          "Please speak now.">>,
        <<"No input. Speak again.",
          "Speak now.">>
      >>,
     fallback |->
      <<
        <<"I did not understand. Could you please rephrase?",
          "I did not follow that. Please rephrase.">>,
        <<"I did not follow that. Please rephrase.",
          "Please rephrase your last sentence.">>,
        <<"Please rephrase.",
          "Say that again, clearly.">>,
        <<"Clarify your request.",
          "State that more clearly.">>,
        <<"Be clear.",
          "Say it clearly and briefly.">>
      >>
    ]

\* piece in word, piece at the end of word, piece at the start of word, for
\* the words of Texts: "wait" is in "waiter"
StrIn(piece, word) == piece = word \/ <<piece, word>> \in {<<"wait", "waiter">>}
StrEnds(piece, word) == piece = word
StrStarts(piece, word) == piece = word \/ <<piece, word>> \in {<<"wait", "waiter">>}

\* "phrase in norm_str": the phrase is a substring of the joined tokens
PhraseIn(phrase, tokens) ==
    LET k == Len(phrase)
    IN  \E i \in 1..Len(tokens) :
           /\ i + k - 1 <= Len(tokens)
           /\ IF k = 1 THEN StrIn(phrase[1], tokens[i])
              ELSE /\ StrEnds(phrase[1], tokens[i])
                   /\ StrStarts(phrase[k], tokens[i + k - 1])
                   /\ \A j \in 2..(k - 1) : phrase[j] = tokens[i + j - 1]

\* the intent respond finds for a text: empty, then the phrases in their
\* order, then the tokens in theirs, then the fallback
intent_of(text) ==
    LET tokens == normalize(text)
        hits == {k \in 1..Len(PHRASES_ORDERED) :
                    PhraseIn(PHRASES_ORDERED[k][1], tokens)}
        mapped == {i \in 1..Len(tokens) : tokens[i] \in DOMAIN TOKEN_TO_INTENT}
    IN  IF text = << >> THEN "silence_or_empty"
        ELSE IF hits # {}
             THEN PHRASES_ORDERED[CHOOSE k \in hits : \A h \in hits : k <= h][2]
        ELSE IF mapped # {}
             THEN TOKEN_TO_INTENT[tokens[CHOOSE i \in mapped :
                                            \A m \in mapped : i <= m]]
        ELSE "fallback"

\* _default_aggressive_formatter with the default terms: the text between
\* the first term and the second
aggressive_formatter(base) == [said |-> base, wrapped |-> TRUE]

\* Mutant of _select: the choices are those of the fallback, whatever the intent
select_fallback_choices(eng, intent) ==
    LET level == eng.attitude_level
        st == eng.state
        choices == TEMPLATES["fallback"][level]
        form(i) == IF level = 5 /\ eng.enable_explicit
                   THEN aggressive_formatter(choices[i + 1])
                   ELSE [said |-> choices[i + 1], wrapped |-> FALSE]
        idx == (st.turn + IntentLen(st.last_intent)) % Len(choices)
    IN  IF form(idx) = st.last_response /\ st.turn < 3
        THEN form((idx + 1) % Len(choices))
        ELSE form(idx)

\* _select(intent), st.turn counted already
select(eng, intent) ==
    LET level == eng.attitude_level
        st == eng.state
        choices == TEMPLATES[intent][level]
        form(i) == IF level = 5 /\ eng.enable_explicit
                   THEN aggressive_formatter(choices[i + 1])
                   ELSE [said |-> choices[i + 1], wrapped |-> FALSE]
        idx == (st.turn + IntentLen(st.last_intent)) % Len(choices)
    IN  IF form(idx) = st.last_response /\ st.turn < 3
        THEN form((idx + 1) % Len(choices))
        ELSE form(idx)

\* respond(text): the response and the engine after _finalize
respond(eng, text) ==
    LET counted == [eng EXCEPT !.state.turn = @ + 1]
        intent == intent_of(text)
        resp == select(counted, intent)
    IN  [response |-> resp,
         engine |-> [counted EXCEPT !.state.last_intent = intent,
                                    !.state.last_response = resp]]

\* what the callee says
Texts ==
    {<< >>, <<"Hello">>, <<"hello">>, <<"good", "morning">>, <<"waiter">>,
     <<"no">>, <<"not", "really">>, <<"yes">>, <<"refund">>,
     <<"refund", "yes">>}

InitEngine ==
    /\ clock = 100
    /\ runtime = VoiceRuntime
    /\ sms_runtime = DefaultSmsRuntime
    /\ dest_attempts = EmptyLedger
    /\ SMS_DEST_ATTEMPTS = EmptyLedger
    /\ ret = None
    /\ ThreadsIdle
    /\ \E level \in 1..5 : \E explicit \in BOOLEAN :
          engine = NewEngine(level, explicit)

engineFrame == <<clock, runtime, sms_runtime, lockVars, stopVars, paramVars, SMS_ONE_SHOT_OPENING,
                 dest_attempts, SMS_DEST_ATTEMPTS, voiceVars, smsVars, lifeVars>>

\* eng.respond(speech_text or "") in the /dialog of run_with_db_engine
Respond(text) ==
    /\ engine.state.turn < MaxTurns
    /\ engine' = respond(engine, text).engine
    /\ ret' = [op |-> "respond", text |-> text,
               response |-> respond(engine, text).response]
    /\ UNCHANGED engineFrame

\* the completed callback disposes of the engine of the call, the next call
\* gets a new one with the same settings
EngineDisposed ==
    /\ engine.state.turn > 0
    /\ engine' = NewEngine(engine.attitude_level, engine.enable_explicit)
    /\ ret' = None
    /\ UNCHANGED engineFrame

NextEngine ==
    \/ \E text \in Texts : Respond(text)
    \/ EngineDisposed

SpecEngine == InitEngine /\ [][NextEngine]_vars

(***************************************************************************)
(* C26: respond is a function of its text alone: whatever calls came       *)
(* before, the engine answers each text as a new engine with the same      *)
(* settings answers it.  (The statement as the specification has it.)      *)
(***************************************************************************)
C26_RespondIsPure_Original ==
    \A text \in Texts :
        respond(engine, text).response =
            respond(NewEngine(engine.attitude_level, engine.enable_explicit),
                    text).response

\* the templates of an intent at the level of the engine
ChoicesOf(intent) ==
    {TEMPLATES[intent][engine.attitude_level][i] :
        i \in 1..Len(TEMPLATES[intent][engine.attitude_level])}

(***************************************************************************)
(* C26, as the code has it: the response to a text is one of the templates *)
(* of the intent of the text at the level of the engine, wrapped in the    *)
(* aggressive terms exactly at level 5 with enable_explicit; which of the  *)
(* templates it is depends on the calls before, and only the first         *)
(* response of an engine is the one a new engine gives.                    *)
(***************************************************************************)
C26_ResponseFromIntentTemplates ==
    ret.op = "respond" =>
        /\ ret.response.said \in ChoicesOf(intent_of(ret.text))
        /\ ret.response.wrapped =
              (engine.attitude_level = 5 /\ engine.enable_explicit)
        /\ engine.state.last_response = ret.response
        /\ engine.state.last_intent = intent_of(ret.text)
        /\ engine.state.turn = 1 =>
              ret.response =
                  respond(NewEngine(engine.attitude_level,
                                    engine.enable_explicit), ret.text).response

\* a later turn answered a text otherwise than a new engine answers it
C26_Witness ==
    /\ ret.op = "respond"
    /\ engine.state.turn >= 2
    /\ intent_of(ret.text) = "greeting"
    /\ ret.response #
          respond(NewEngine(engine.attitude_level, engine.enable_explicit),
                  ret.text).response

(***************************************************************************)
(* C27: after a placement the loop does not re-arm the schedule: while a   *)
(* call is in flight and no call is placed or ended, an armed              *)
(* next_call_epoch_s keeps its value.  (The statement as the               *)
(* specification has it.)                                                  *)
(***************************************************************************)
C27_NotRearmedInFlight_Original ==
    [][(/\ \E sid \in 1..MaxCalls : calls[sid] = "active"
        /\ calls' = calls
        /\ next_call_epoch_s # NoTs)
          => next_call_epoch_s' = next_call_epoch_s]_vars

(***************************************************************************)
(* C27, as the code has it: the step that places a call leaves             *)
(* next_call_epoch_s as it is; after it the schedule is re-armed by the    *)
(* callback that ends a call, and also by the loop or a request thread at  *)
(* every refusal (a call in flight among them) and every failed placement. *)
(* Nothing else changes an armed schedule.  The SMS loop re-arms its       *)
(* schedule in the tick of the send.                                       *)
(***************************************************************************)
C27_RearmedByRefusalOrTerminal ==
    [][/\ (next_call_epoch_s' # next_call_epoch_s) =>
              \/ next_call_epoch_s = NoTs
              \/ \E sid \in 1..MaxCalls :
                    calls[sid] = "active" /\ calls'[sid] = "done"
              \/ ret'.op \in {"denied", "placement_failed"}
       /\ (\E sid \in 1..MaxCalls : calls[sid] = "none" /\ calls'[sid] = "active")
              => next_call_epoch_s' = next_call_epoch_s
       /\ (sms_loop.pc = "sending" /\ sms_loop'.pc = "top")
              => next_sms_epoch_s' \in {sms_loop.now + iv : iv \in SmsIntervals}
      ]_vars

\* a call is in flight and the loop, refusing, has just armed the schedule
C27_Witness ==
    /\ \E sid \in 1..MaxCalls : calls[sid] = "active" /\ CURRENT_CALL_SID = sid
    /\ ret.op = "denied"
    /\ ret.by = "_dialer_loop"
    /\ next_call_epoch_s > clock

(***************************************************************************)
(* C28: whenever the loop runs the admission sequence and refuses, be it   *)
(* for a manual request or for an elapsed deadline, the schedule is        *)
(* re-armed in that tick: the refusing step sets the deadline to the now   *)
(* of the tick plus a fresh interval, or it is the manual part of a tick   *)
(* whose deadline has elapsed, so that the deadline part of the tick runs  *)
(* the sequence again.                                                     *)
(***************************************************************************)
C28_DenialRearms ==
    [][(ret'.op = "denied" /\ ret'.by = "_dialer_loop") =>
          \/ \E iv \in Intervals :
                /\ next_call_epoch_s' =
                      (IF dialer.pc = "top" THEN clock ELSE dialer.now) + iv
                /\ interval_total_seconds' = iv
          \/ /\ dialer.pc = "top"
             /\ dialer'.pc = "deadline"
             /\ next_call_epoch_s' # NoTs
             /\ dialer'.now >= next_call_epoch_s']_vars

(***************************************************************************)
(* C29: a completed callback for a sid that is not the current call sid    *)
(* (stale, duplicate or unknown) leaves the current call sid as it is.     *)
(***************************************************************************)
C29_OtherCompletedKeepsCurrent ==
    [][\A sid \in CallbackSids :
          (LCompletedStart(sid) /\ CURRENT_CALL_SID # sid)
              => CURRENT_CALL_SID' = CURRENT_CALL_SID]_vars

(***************************************************************************)
(* C30: the history file of a sid never loses events: what the file holds  *)
(* now begins with the transcript it was first written with.               *)
(***************************************************************************)
C30_HistoryKeepsEvents ==
    \A sid \in DOMAIN HISTORY :
        IsPrefix(HISTORY[sid][1].transcript,
                 HISTORY[sid][Len(HISTORY[sid])].transcript)

(***************************************************************************)
(* C31: once the completed callback of a sid has been handled, the live    *)
(* transcript store holds no entry for the sid, whatever notifications for *)
(* the sid come later.                                                     *)
(***************************************************************************)
C31_CompletedHasNoTranscript ==
    \A sid \in CallbackSids :
        (Completed(sid) /\ status_handler.pc = "idle")
            => sid \notin DOMAIN TRANSCRIPTS

(***************************************************************************)
(* SpecTranscript: _append_transcript with its text, applied to the        *)
(* transcripts that appends and the pop of the completed handler build.    *)
(* Append and pop run under _TRANSCRIPTS_LOCK, so each is one step.        *)
(***************************************************************************)
\* what a notification carries as text; "" also stands for a missing one
EventTexts == {"", "a", "b"}

EventRoles == {"Callee", "Assistant"}

\* Mutant of _append_transcript: the entry takes the place of the last entry
append_transcript_over_last(transcripts, sid, role, text, is_final, t) ==
    LET old == DictGet(transcripts, sid, << >>)
        entry == [t |-> t, role |-> role, text |-> text, final |-> is_final]
    IN  IF text = "" THEN transcripts
        ELSE DictSet(transcripts, sid,
                     IF old = << >> THEN <<entry>>
                     ELSE [old EXCEPT ![Len(old)] = entry])

\* _append_transcript(call_sid, role, text, is_final) at time t
append_transcript_text(transcripts, sid, role, text, is_final, t) ==
    IF text = "" THEN transcripts
    ELSE DictSet(transcripts, sid,
                 Append(DictGet(transcripts, sid, << >>),
                        [t |-> t, role |-> role, text |-> text,
                         final |-> is_final]))

transcriptFrame == <<clock, runtime, sms_runtime, lockVars, stopVars, paramVars, engine,
                     SMS_ONE_SHOT_OPENING, dest_attempts, SMS_DEST_ATTEMPTS,
                     voiceVars, smsVars, CALL_META, HISTORY, SMS_HISTORY,
                     status_handler>>

\* a handler calls _append_transcript
TAppend(sid, role, text, is_final) ==
    /\ text # "" => TranscriptLen < MaxTranscript
    /\ TRANSCRIPTS' =
          append_transcript_text(TRANSCRIPTS, sid, role, text, is_final, clock)
    /\ ret' = [op |-> "append_transcript", before |-> TRANSCRIPTS, sid |-> sid,
               role |-> role, text |-> text, final |-> is_final]
    /\ UNCHANGED transcriptFrame

\* the completed handler: _TRANSCRIPTS.pop(call_sid, None)
TPop(sid) ==
    /\ TRANSCRIPTS' = DictPop(TRANSCRIPTS, sid)
    /\ ret' = None
    /\ UNCHANGED transcriptFrame

NextTranscript ==
    \/ \E sid \in CallbackSids, role \in EventRoles, text \in EventTexts,
          is_final \in BOOLEAN : TAppend(sid, role, text, is_final)
    \/ \E sid \in CallbackSids : TPop(sid)

SpecTranscript == InitLifecycle /\ [][NextTranscript]_vars

(***************************************************************************)
(* C32: _append_transcript with an empty text leaves the transcripts as    *)
(* they are; with a text it adds one entry at the end of the transcript of *)
(* the sid: the entries that were there keep their content, their final    *)
(* flag and their order, and the other transcripts are left alone.         *)
(***************************************************************************)
C32_AppendOnly ==
    ret.op = "append_transcript" =>
        LET old == DictGet(ret.before, ret.sid, << >>)
        IN  IF ret.text = "" THEN TRANSCRIPTS = ret.before
            ELSE /\ ret.sid \in DOMAIN TRANSCRIPTS
                 /\ Len(TRANSCRIPTS[ret.sid]) = Len(old) + 1
                 /\ SubSeq(TRANSCRIPTS[ret.sid], 1, Len(old)) = old
                 /\ TRANSCRIPTS[ret.sid][Len(old) + 1] =
                       [t |-> clock, role |-> ret.role, text |-> ret.text,
                        final |-> ret.final]
                 /\ DOMAIN TRANSCRIPTS = DOMAIN ret.before \cup {ret.sid}
                 /\ \A u \in DOMAIN ret.before :
                       u # ret.sid => TRANSCRIPTS[u] = ret.before[u]

\* a partial entry was appended to a transcript that ends with a final one
C32_Witness ==
    /\ ret.op = "append_transcript"
    /\ ret.text # ""
    /\ ~ret.final
    /\ ret.sid \in DOMAIN ret.before
    /\ ret.before[ret.sid][Len(ret.before[ret.sid])].final
    /\ Len(TRANSCRIPTS[ret.sid]) = 2

(***************************************************************************)
(* SpecLoop: the two loops of SpecStatus with their "while not stop" test, *)
(* the "except Exception" that ends a tick, and the signal handler that    *)
(* requests the stop.  _place_call_now and _send_sms_now catch what the    *)
(* provider request raises, so a tick fails outside of them.               *)
(***************************************************************************)
\* Mutant of the handler of a failed tick: the exception leaves the loop
after_tick_exception_uncaught == [pc |-> "ended", now |-> 0]

\* "except Exception: time.sleep(0.5)": the loop goes on with its next tick
after_tick_exception == [pc |-> "top", now |-> 0]

\* a step of _dialer_loop raises outside _place_call_now; what the tick did
\* before stays done: the schedule may be initialized, the manual request
\* cleared, an expired pending mark removed
DialerTickRaised ==
    /\ dialer.pc \in {"top", "deadline"}
    /\ dialer.pc = "top" => ~stop_requested
    /\ IF dialer.pc = "top"
       THEN /\ \/ UNCHANGED <<next_call_epoch_s, interval_total_seconds>>
               \/ \E iv \in Intervals : initialize_schedule_if_needed(clock, iv)
            /\ manual_call_requested' \in
                  {manual_call_requested, event_clear(manual_call_requested)}
            /\ UNCHANGED PENDING_UNTIL_TS
       ELSE /\ PENDING_UNTIL_TS' \in {PENDING_UNTIL_TS, PendingAfterDeadlineTest}
            /\ UNCHANGED <<next_call_epoch_s, interval_total_seconds,
                           manual_call_requested>>
    /\ dialer' = after_tick_exception
    /\ ret' = [op |-> "tick_failed", by |-> "_dialer_loop"]
    /\ UNCHANGED <<clock, dest_attempts, CURRENT_CALL_SID, call_now, calls,
                   otherVars>>

\* a step of _sms_loop raises outside _send_sms_now
SmsTickRaised ==
    /\ sms_loop.pc = "top"
    /\ ~sms_stop_requested
    /\ \/ UNCHANGED <<next_sms_epoch_s, sms_interval_total_seconds>>
       \/ /\ sms_runtime.enabled
          /\ \E iv \in SmsIntervals : initialize_sms_schedule_if_needed(clock, iv)
    /\ sms_loop' = after_tick_exception
    /\ ret' = [op |-> "tick_failed", by |-> "_sms_loop"]
    /\ UNCHANGED <<clock, send_now, SMS_DEST_ATTEMPTS, SMS_ONE_SHOT_OPENING,
                   smsSendFrame>>

\* _handle_termination: both events are set
HandleTermination ==
    /\ ~(stop_requested /\ sms_stop_requested)
    /\ stop_requested' = TRUE
    /\ sms_stop_requested' = TRUE
    /\ ret' = None
    /\ UNCHANGED <<clock, runtime, sms_runtime, lockVars, paramVars, engine,
                   SMS_ONE_SHOT_OPENING, dest_attempts, SMS_DEST_ATTEMPTS,
                   voiceVars, smsVars, lifeVars>>

\* "while not _stop_requested.is_set()" finds the event set
DialerLoopEnds ==
    /\ dialer.pc = "top"
    /\ stop_requested
    /\ dialer' = [pc |-> "ended", now |-> 0]
    /\ ret' = None
    /\ UNCHANGED <<clock, dest_attempts, CURRENT_CALL_SID, PENDING_UNTIL_TS,
                   next_call_epoch_s, interval_total_seconds,
                   manual_call_requested, call_now, calls, otherVars>>

\* "while not _sms_stop_requested.is_set()" finds the event set
SmsLoopEnds ==
    /\ sms_loop.pc = "top"
    /\ sms_stop_requested
    /\ sms_loop' = [pc |-> "ended", now |-> 0]
    /\ ret' = None
    /\ UNCHANGED <<clock, send_now, next_sms_epoch_s,
                   sms_interval_total_seconds, SMS_DEST_ATTEMPTS,
                   SMS_ONE_SHOT_OPENING, smsSendFrame>>

\* a tick of _dialer_loop begins
DialerTickBegins == ~stop_requested /\ DialerNoManual

\* a tick of _sms_loop begins and takes the branch
SmsTickBegins(branch) == ~sms_stop_requested /\ branch

NextLoop ==
    \/ Advance
    \/ DialerTickBegins
    \/ DialerNotDue
    \/ DialerDeadlineDenied
    \/ DialerDeadlineCapped
    \/ DialerDeadlinePlace
    \/ DialerCallAccepted
    \/ DialerCallFailed
    \/ \E sid \in 1..MaxCalls : CallProgress(sid)
    \/ \E sid \in 1..MaxCalls : StatusCompleted(sid)
    \/ SmsTickBegins(SmsLoopDisabled)
    \/ SmsTickBegins(SmsLoopNotDue)
    \/ SmsTickBegins(SmsLoopSend)
    \/ SmsLoopSent
    \/ SmsLoopSendFailed
    \/ DialerTickRaised
    \/ SmsTickRaised
    \/ HandleTermination
    \/ DialerLoopEnds
    \/ SmsLoopEnds

SpecLoop == InitStatus /\ [][NextLoop]_vars

\* the last step was a tick of the loop ending in an exception
TickFailed(loop) == ret.op = "tick_failed" /\ ret.by = loop

(***************************************************************************)
(* C33: an exception in a tick does not end a loop.  A loop has ended only *)
(* if its stop was requested; after a failed tick the loop is at the top   *)
(* of its while and, the stop not requested, can begin its next tick.      *)
(***************************************************************************)
C33_LoopSurvivesTick ==
    /\ ~stop_requested => dialer.pc # "ended"
    /\ ~sms_stop_requested => sms_loop.pc # "ended"
    /\ TickFailed("_dialer_loop") =>
          /\ dialer.pc = "top"
          /\ ~stop_requested => ENABLED DialerTickBegins
    /\ TickFailed("_sms_loop") =>
          /\ sms_loop.pc = "top"
          /\ ~sms_stop_requested =>
                ENABLED (\/ SmsTickBegins(SmsLoopDisabled)
                         \/ SmsTickBegins(SmsLoopNotDue)
                         \/ SmsTickBegins(SmsLoopSend))

\* a tick of the dialer loop failed in its deadline part while a call was
\* under way, and the stop is not requested
C33_Witness ==
    /\ TickFailed("_dialer_loop")
    /\ ~stop_requested
    /\ next_call_epoch_s # NoTs
    /\ \E sid \in 1..MaxCalls : calls[sid] = "active"

(***************************************************************************)
(* The locks.  Every function of twilio_outbound_call is reduced to what   *)
(* it does with the threading.Lock objects and the provider: the sets      *)
(* below hold, for each function, one sequence of steps per path through   *)
(* it.  A "with L:" block whose body calls nothing is an acquire followed  *)
(* by a release.  SpecLocks runs the dialer thread, the SMS thread and a   *)
(* request thread through these sequences, one step at a time.             *)
(***************************************************************************)
Acquire(l) == [op |-> "acquire", lock |-> l]

Release(l) == [op |-> "release", lock |-> l]

ProviderCall == [op |-> "provider", lock |-> ""]

\* "with l:" around a body that takes no lock and calls no provider
With(l) == {<<Acquire(l), Release(l)>>}

\* a path that touches no lock
NoLock == {<< >>}

\* one function after another
Then(A, B) == {a \o b : a \in A, b \in B}

RECURSIVE Chain(_)
Chain(fs) == IF fs = << >> THEN NoLock ELSE Then(Head(fs), Chain(Tail(fs)))

\* _set_last_dial_error, _clear_last_dial_error
last_dial_error_locks == With("_LAST_DIAL_ERROR_LOCK")

\* _set_current_call_sid, _get_current_call_sid
current_call_sid_locks == With("_CURRENT_CALL_LOCK")

\* _mark_outgoing_pending, _clear_outgoing_pending, _is_outgoing_pending
outgoing_pending_locks == With("_PENDING_LOCK")

prepare_params_lock_kept == {<<Acquire("_PARAMS_LOCK")>>}

\* _prepare_params_for_next_call: acquire, select, release in "finally"
prepare_params_for_next_call_locks == With("_PARAMS_LOCK")

\* _assign_params_to_sid
assign_params_to_sid_locks == With("_PARAMS_LOCK")

\* _prune_attempts
prune_attempts_locks == With("_attempts_lock")

\* _note_attempt
note_attempt_locks == With("_attempts_lock")

\* _can_attempt: the prune, then the counting under the lock again
can_attempt_locks == Then(prune_attempts_locks, With("_attempts_lock"))

\* _initialize_schedule_if_needed, _reset_schedule_after_completion
schedule_locks == With("_next_call_epoch_s_lock")

\* _init_call_meta_if_absent
init_call_meta_if_absent_locks == With("_CALL_META_LOCK")

persist_call_history_nested ==
    {<<Acquire("_CALL_META_LOCK"), Acquire("_TRANSCRIPTS_LOCK"),
       Release("_TRANSCRIPTS_LOCK"), Release("_CALL_META_LOCK")>>}

\* _persist_call_history: the metadata is copied under one lock, the
\* transcript under the other, the file is written under none
persist_call_history_locks ==
    Then(With("_CALL_META_LOCK"), With("_TRANSCRIPTS_LOCK"))

\* _place_call_now when it returns True: with a sid the parameters and the
\* metadata are stored, without one they are not
place_call_now_ok_locks ==
    Chain(<<prepare_params_for_next_call_locks, {<<ProviderCall>>},
            last_dial_error_locks, note_attempt_locks, outgoing_pending_locks,
            NoLock \cup Then(assign_params_to_sid_locks,
                             init_call_meta_if_absent_locks)>>)

\* _place_call_now when it returns False: not configured, or the provider
\* raised
place_call_now_failed_locks ==
    last_dial_error_locks
        \cup Chain(<<prepare_params_for_next_call_locks, {<<ProviderCall>>},
                     last_dial_error_locks>>)

\* "can = _can_attempt(...); if can: ok = _place_call_now(); if not ok:
\* reset", followed by onRefusal when the cap refuses
attempt_locks(onRefusal) ==
    Then(can_attempt_locks,
         onRefusal \cup place_call_now_ok_locks
                   \cup Then(place_call_now_failed_locks, schedule_locks))

\* one pass of the body of _dialer_loop without a manual request
dialer_tick_locks ==
    Chain(<<schedule_locks, schedule_locks,
            NoLock
              \cup Then(NoLock \cup outgoing_pending_locks
                               \cup Then(outgoing_pending_locks,
                                         current_call_sid_locks),
                        schedule_locks)
              \cup Chain(<<outgoing_pending_locks, current_call_sid_locks,
                           attempt_locks(schedule_locks)>>)>>)

\* the manual part of a pass of _dialer_loop; the deadline part that follows
\* is dialer_tick_locks without its first step
dialer_manual_locks ==
    Then(schedule_locks,
         Then(NoLock \cup current_call_sid_locks, schedule_locks)
           \cup Then(current_call_sid_locks, attempt_locks(NoLock)))

\* status_callback for a progress status and for "completed"
status_callback_locks ==
    Chain(<<NoLock \cup Then(current_call_sid_locks,
                             init_call_meta_if_absent_locks),
            outgoing_pending_locks, last_dial_error_locks>>)
      \cup Chain(<<current_call_sid_locks, outgoing_pending_locks,
                   With("_CALL_META_LOCK"), persist_call_history_locks,
                   With("_TRANSCRIPTS_LOCK"), schedule_locks>>)

\* api_status
api_status_locks ==
    Chain(<<schedule_locks, With("_attempts_lock"), can_attempt_locks,
            current_call_sid_locks, last_dial_error_locks>>)

\* api_call_now with DIRECT_DIAL_ON_TRIGGER: the refusals, then the placement
api_call_now_locks ==
    NoLock
      \cup current_call_sid_locks
      \cup Then(current_call_sid_locks, outgoing_pending_locks)
      \cup Chain(<<current_call_sid_locks, outgoing_pending_locks,
                   can_attempt_locks,
                   NoLock \cup place_call_now_ok_locks
                          \cup Then(place_call_now_failed_locks,
                                    last_dial_error_locks)>>)

\* _sms_can_attempt
sms_can_attempt_locks ==
    Then(With("_SMS_ATTEMPTS_LOCK"), With("_SMS_ATTEMPTS_LOCK"))

\* _compose_sms_body: the one-shot text, else the template, else a stored
\* user message
compose_sms_body_locks ==
    Then(With("_SMS_ONE_SHOT_OPENING_LOCK"),
         NoLock \cup With("_USER_MESSAGES_LOCK"))

\* _send_sms_now: the refusals, then the message with or without the ledger
\* entry that follows an accepted one
send_sms_now_locks ==
    NoLock
      \cup sms_can_attempt_locks
      \cup Chain(<<sms_can_attempt_locks, compose_sms_body_locks,
                   {<<ProviderCall>>},
                   NoLock \cup With("_SMS_ATTEMPTS_LOCK")>>)

\* _initialize_sms_schedule_if_needed, _reset_sms_schedule_after_completion
sms_schedule_locks == With("_NEXT_SMS_EPOCH_LOCK")

\* one pass of the body of _sms_loop: disabled, not due, or due
sms_tick_locks ==
    NoLock
      \cup Then(sms_schedule_locks, sms_schedule_locks)
      \cup Chain(<<sms_schedule_locks, sms_schedule_locks,
                   send_sms_now_locks, sms_schedule_locks>>)

\* api_texts_status
api_texts_status_locks ==
    Chain(<<sms_schedule_locks, With("_SMS_ATTEMPTS_LOCK"),
            sms_can_attempt_locks, NoLock \cup compose_sms_body_locks>>)

\* what each thread runs
ThreadFunctions(t) ==
    CASE t = "dialer" -> dialer_tick_locks \cup dialer_manual_locks
      [] t = "sms" -> sms_tick_locks
      [] OTHER -> status_callback_locks \cup api_status_locks
                    \cup api_call_now_locks \cup send_sms_now_locks
                    \cup api_texts_status_locks

InitLocks ==
    /\ clock = 100
    /\ runtime = VoiceRuntime
    /\ sms_runtime = DefaultSmsRuntime
    /\ dest_attempts = EmptyLedger
    /\ SMS_DEST_ATTEMPTS = EmptyLedger
    /\ ret = None
    /\ SchedulersIdle

lockFrame == <<clock, runtime, sms_runtime, stopVars, paramVars, engine,
               SMS_ONE_SHOT_OPENING, dest_attempts, SMS_DEST_ATTEMPTS, ret,
               voiceVars, smsVars, lifeVars>>

\* the locks a thread holds
HeldBy(t) == {l \in Locks : lock_holder[l] = t}

\* the next step of a thread
NextStep(t) == IF lock_steps[t] = << >> THEN [op |-> "idle", lock |-> ""]
               ELSE Head(lock_steps[t])

\* a thread enters a function
LockBegin(t) ==
    /\ lock_steps[t] = << >>
    /\ \E steps \in ThreadFunctions(t) \ {<< >>} :
          lock_steps' = [lock_steps EXCEPT ![t] = steps]
    /\ UNCHANGED <<lock_holder, lockFrame>>

\* threading.Lock.acquire: it blocks while any thread, the caller included,
\* holds the lock
LockAcquire(t) ==
    /\ NextStep(t).op = "acquire"
    /\ lock_holder[NextStep(t).lock] = NoThread
    /\ lock_holder' = [lock_holder EXCEPT ![NextStep(t).lock] = t]
    /\ lock_steps' = [lock_steps EXCEPT ![t] = Tail(@)]
    /\ UNCHANGED lockFrame

\* threading.Lock.release at the end of the "with" block
LockRelease(t) ==
    /\ NextStep(t).op = "release"
    /\ lock_holder' = [lock_holder EXCEPT ![NextStep(t).lock] = NoThread]
    /\ lock_steps' = [lock_steps EXCEPT ![t] = Tail(@)]
    /\ UNCHANGED lockFrame

\* client.calls.create or client.messages.create
ProviderInvoked(t) ==
    /\ NextStep(t).op = "provider"
    /\ lock_steps' = [lock_steps EXCEPT ![t] = Tail(@)]
    /\ UNCHANGED <<lock_holder, lockFrame>>

NextLocks ==
    \/ \E t \in Threads : LockBegin(t)
    \/ \E t \in Threads : LockAcquire(t)
    \/ \E t \in Threads : LockRelease(t)
    \/ \E t \in Threads : ProviderInvoked(t)

SpecLocks == InitLocks /\ [][NextLocks]_vars

\* C34: a thread that is about to invoke the provider's placement call
\* (client.calls.create in _place_call_now, client.messages.create in
\* _send_sms_now) holds none of the program's locks.
C34_NoLockAtProviderCall ==
    \A t \in Threads : NextStep(t).op = "provider" => HeldBy(t) = {}

\* the dialer is about to invoke the provider after it took and released
\* _PARAMS_LOCK, while the request thread is inside a lock
C34_Witness ==
    /\ NextStep("dialer").op = "provider"
    /\ HeldBy("request") # {}

\* a thread waits for a lock that is held
Blocked(t) ==
    /\ NextStep(t).op = "acquire"
    /\ lock_holder[NextStep(t).lock] # NoThread

\* C35: no thread holds two of the program's locks at the same time, and a
\* thread that waits for a lock waits for a thread that is not itself
\* waiting, so that no interleaving deadlocks on lock acquisition.
C35_AtMostOneLock ==
    \A t \in Threads :
        /\ Cardinality(HeldBy(t)) <= 1
        /\ Blocked(t) =>
              /\ lock_holder[NextStep(t).lock] # t
              /\ ~Blocked(lock_holder[NextStep(t).lock])

\* the request thread waits for the lock the dialer holds
C35_Witness ==
    /\ Blocked("request")
    /\ lock_holder[NextStep("request").lock] = "dialer"

(***************************************************************************)
(* SpecDue: the two loops with the deadline tests of every tick, the       *)
(* callbacks that re-arm the voice schedule, and the administrator who     *)
(* switches SMS_ENABLED while the program runs.  The loops are daemon      *)
(* threads that run until the process ends and the provider request        *)
(* returns or times out, hence the weak fairness of their steps.           *)
(***************************************************************************)
\* api_admin_env_post with an update of SMS_ENABLED: _apply_env_updates sets
\* os.environ and reloads the configuration objects in place
ApiAdminEnvPost(enabled) ==
    /\ sms_runtime.enabled # enabled
    /\ sms_runtime' = [sms_runtime EXCEPT !.enabled = enabled]
    /\ ret' = None
    /\ UNCHANGED <<clock, runtime, lockVars, stopVars, paramVars, engine,
                   SMS_ONE_SHOT_OPENING, dest_attempts, SMS_DEST_ATTEMPTS,
                   voiceVars, smsVars, lifeVars>>

\* the part of a pass of _dialer_loop that starts at the deadline test
DialerDeadlinePart ==
    \/ DialerNotDue
    \/ DialerDeadlineDenied
    \/ DialerDeadlineCapped
    \/ DialerDeadlineNotConfigured
    \/ DialerDeadlinePlace

\* a step of the dialer thread
DialerLoopStep ==
    \/ DialerNoManual
    \/ DialerDeadlinePart
    \/ DialerCallAccepted
    \/ DialerCallFailed

\* a pass of _sms_loop up to the provider request
SmsTick ==
    \/ SmsLoopDisabled
    \/ SmsLoopNotDue
    \/ SmsLoopDenied
    \/ SmsLoopCapped
    \/ SmsLoopSend

\* a step of the SMS thread
SmsLoopStep == SmsTick \/ SmsLoopSent \/ SmsLoopSendFailed

\* the instants the loops are looked at: the deadlines that the intervals of
\* 30 and 60 seconds give, and instants within the hour of the first attempt
DueInstants == {0, 30, 60, 120, 180}

\* time passes, to the next instant and only between the provider requests
DueAdvance ==
    /\ ~Busy
    /\ \E t \in DueInstants :
          /\ t > clock
          /\ \A u \in DueInstants : u > clock => t <= u
          /\ clock' = t
    /\ ret' = None
    /\ UNCHANGED <<runtime, sms_runtime, lockVars, stopVars, paramVars, engine,
                   SMS_ONE_SHOT_OPENING, dest_attempts, SMS_DEST_ATTEMPTS,
                   voiceVars, smsVars, lifeVars>>

NextDue ==
    \/ DueAdvance
    \/ DialerNoManual
    \/ DialerNotDue
    \/ DialerDeadlineDenied
    \/ DialerDeadlineCapped
    \/ DialerDeadlineNotConfigured
    \/ DialerDeadlinePlace
    \/ DialerCallAccepted
    \/ DialerCallFailed
    \/ \E sid \in 1..MaxCalls : CallProgress(sid)
    \/ \E sid \in 1..MaxCalls : StatusCompleted(sid)
    \/ SmsLoopDisabled
    \/ SmsLoopNotDue
    \/ SmsLoopDenied
    \/ SmsLoopCapped
    \/ SmsLoopSend
    \/ SmsLoopSent
    \/ SmsLoopSendFailed
    \/ \E enabled \in BOOLEAN : ApiAdminEnvPost(enabled)

\* both channels in use with their smallest intervals and caps; the voice
\* channel without its base URL beside an SMS channel without destination
DueConfigurations ==
    {<<VoiceRuntime, SmsRuntime>>,
     <<[VoiceRuntime EXCEPT !.public_base_url = ""],
       [SmsRuntime EXCEPT !.to_number = ""]>>}

InitDue ==
    /\ clock = 0
    /\ \E c \in DueConfigurations : runtime = c[1] /\ sms_runtime = c[2]
    /\ dest_attempts = EmptyLedger
    /\ SMS_DEST_ATTEMPTS = EmptyLedger
    /\ ret = None
    /\ SchedulersIdle

SpecDue ==
    /\ InitDue
    /\ [][NextDue]_vars
    /\ WF_vars(DialerLoopStep)
    /\ WF_vars(SmsLoopStep)

\* is_due(now) of the two schedules
VoiceDue(now) == next_call_epoch_s # NoTs /\ now >= next_call_epoch_s

SmsDue(now) == next_sms_epoch_s # NoTs /\ now >= next_sms_epoch_s

\* the deadline part of a voice tick that found the deadline due ran the
\* admission: it re-armed the schedule or sent the placement request
VoiceDueCheckRuns ==
    (DialerDeadlinePart /\ VoiceDue(dialer.now)) =>
        \/ next_call_epoch_s' # NoTs /\ next_call_epoch_s' > dialer.now
        \/ dialer'.pc = "deadline_call"

\* the same for an SMS tick
SmsDueCheckRuns ==
    (SmsTick /\ SmsDue(clock)) =>
        \/ next_sms_epoch_s' # NoTs /\ next_sms_epoch_s' > clock
        \/ sms_loop'.pc = "sending"

\* C36 as the spec states it (refuted): at every tick of either loop where the
\* deadline is set and now >= deadline, the admission sequence is run in that
\* tick.
C36_NeverSkipsDueCheck_Original ==
    [][VoiceDueCheckRuns /\ SmsDueCheckRuns]_vars

\* C36, amended: at every tick of the voice loop, and at every tick of the
\* SMS loop made while SMS is enabled, a deadline that is set and has elapsed
\* has the admission sequence run in that tick; under weak fairness of the
\* loops an elapsed voice deadline is eventually evaluated, and an elapsed
\* SMS deadline is eventually evaluated or SMS is disabled.
C36_EnabledLoopNeverSkipsDueCheck ==
    /\ [][/\ VoiceDueCheckRuns
          /\ sms_runtime.enabled => SmsDueCheckRuns]_vars
    /\ VoiceDue(clock) ~> (~VoiceDue(clock) \/ dialer.pc = "deadline_call")
    /\ (SmsDue(clock) /\ sms_runtime.enabled)
          ~> (~SmsDue(clock) \/ sms_loop.pc = "sending" \/ ~sms_runtime.enabled)

\* a voice tick found its deadline due, was refused and re-armed it, while
\* the SMS deadline has elapsed with SMS switched off
C36_Witness ==
    /\ ret = Denied("_dialer_loop", "admission")
    /\ next_call_epoch_s # NoTs /\ next_call_epoch_s > clock
    /\ SmsDue(clock) /\ ~sms_runtime.enabled

\* C37 (refuted by the code): the one-shot SMS text is a single-slot mailbox
\* that only the composition of an attempt's body empties: a step that takes
\* a written text out of the slot is the step of the SMS loop or of the
\* manual send that composes the body of the message it then sends.
C37_OnlyAttemptEmptiesSlot ==
    [][(SMS_ONE_SHOT_OPENING # NoOpening /\ SMS_ONE_SHOT_OPENING' = NoOpening)
          => \/ sms_loop.pc # "sending" /\ sms_loop'.pc = "sending"
             \/ send_now.pc # "sending" /\ send_now'.pc = "sending"]_vars

\* the actions of the voice scheduler in SpecDue: the steps of the dialer
\* thread (tick, placement) and the status callbacks
VoiceAction ==
    \/ DialerLoopStep
    \/ \E sid \in 1..MaxCalls : CallProgress(sid)
    \/ \E sid \in 1..MaxCalls : StatusCompleted(sid)

\* C38: the voice and SMS schedulers have independent state: every voice
\* action (tick, placement, status callback) leaves the SMS ledger and the SMS
\* next_deadline and interval_total unchanged, and every SMS action leaves the
\* voice ledger, the voice schedule and the voice in-flight marker unchanged.
C38_IndependentState ==
    [][/\ VoiceAction =>
            UNCHANGED <<SMS_DEST_ATTEMPTS, next_sms_epoch_s,
                        sms_interval_total_seconds>>
       /\ SmsLoopStep =>
            UNCHANGED <<dest_attempts, next_call_epoch_s,
                        interval_total_seconds, CURRENT_CALL_SID,
                        PENDING_UNTIL_TS>>]_vars

\* both channels have attempted, to the same destination, and both schedules
\* are armed with deadlines of their own
C38_Witness ==
    /\ runtime.to_number = sms_runtime.to_number
    /\ dest_attempts[runtime.to_number] # << >>
    /\ SMS_DEST_ATTEMPTS[sms_runtime.to_number] # << >>
    /\ next_call_epoch_s # NoTs /\ next_sms_epoch_s # NoTs
    /\ next_call_epoch_s # next_sms_epoch_s

\* how many entries of lst are t
CountOf(lst, t) == Cardinality({i \in DOMAIN lst : lst[i] = t})

\* the ledger list of the destination after the last call of _can_attempt or
\* _sms_can_attempt
ListAfterCan ==
    IF ret.op = "can_attempt" THEN dest_attempts[ret.to_number]
    ELSE SMS_DEST_ATTEMPTS[ret.to_number]

\* C39: after any call can_attempt(d, now), on either channel, the ledger
\* holds no entry for d with a timestamp earlier than now - 86400, and every
\* entry for d with a timestamp at or after now - 86400 that was present
\* before the call is still present.
C39_PruneKeepsTrailingDay ==
    IsCan =>
        /\ \A i \in DOMAIN ListAfterCan : ListAfterCan[i] >= ret.now_ts - 86400
        /\ \A i \in DOMAIN ret.before :
              ret.before[i] >= ret.now_ts - 86400 =>
                  CountOf(ListAfterCan, ret.before[i])
                      = CountOf(ret.before, ret.before[i])

\* a call that found an entry older than 24 hours, which it dropped, and a
\* younger one, which it kept
C39_Witness ==
    /\ IsCan
    /\ \E i \in DOMAIN ret.before : ret.before[i] < ret.now_ts - 86400
    /\ \E i \in DOMAIN ret.before : ret.before[i] >= ret.now_ts - 86400
    /\ Len(ListAfterCan) < Len(ret.before)

(***************************************************************************)
(* SpecGate: the SMS channel alone, its loop and the manual send requests, *)
(* with the administrator switching SMS_ENABLED while they run.            *)
(***************************************************************************)
\* SMS configured, switched on or off at the start, or without destination
GateConfigurations ==
    {<<[VoiceRuntime EXCEPT !.to_number = ""], SmsRuntime>>,
     <<[VoiceRuntime EXCEPT !.to_number = ""],
       [SmsRuntime EXCEPT !.enabled = FALSE]>>,
     <<[VoiceRuntime EXCEPT !.to_number = ""],
       [SmsRuntime EXCEPT !.to_number = ""]>>}

InitGate ==
    /\ clock = 0
    /\ \E c \in GateConfigurations : runtime = c[1] /\ sms_runtime = c[2]
    /\ dest_attempts = EmptyLedger
    /\ SMS_DEST_ATTEMPTS = EmptyLedger
    /\ ret = None
    /\ SchedulersIdle

NextGate ==
    \/ DueAdvance
    \/ SmsLoopDisabled
    \/ SmsLoopNotDue
    \/ SmsLoopDenied
    \/ SmsLoopCapped
    \/ SmsLoopSend
    \/ SmsLoopSent
    \/ SmsLoopSendFailed
    \/ SendNowDenied
    \/ SendNowCapped
    \/ SendNowSend
    \/ SendNowSent
    \/ SendNowFailed
    \/ \E enabled \in BOOLEAN : ApiAdminEnvPost(enabled)

SpecGate == InitGate /\ [][NextGate]_vars

\* a thread is between client.messages.create and its return
SmsRequestUnderWay == sms_loop.pc = "sending" \/ send_now.pc = "sending"

\* the step adds an entry to the SMS ledger
SmsLedgerGrows ==
    \E d \in Dests : Len(SMS_DEST_ATTEMPTS'[d]) > Len(SMS_DEST_ATTEMPTS[d])

====
